---- MODULE Spec2Model ----
(***************************************************************************)
(* Face identification and matching engine of face-recognition-pro.        *)
(*                                                                         *)
(* The model covers the vector index service (vector_database.py), the     *)
(* image pipeline (face_recognition.py), the identification handlers       *)
(* (api/recognition.py, services/recognition_service.py), the face login   *)
(* (api/face_auth.py) and the enrolment of photos (api/persons.py).        *)
(*                                                                         *)
(* Conventions of the model                                                *)
(*  - A similarity score s of the code is the integer 10*s, so that the    *)
(*    configured confidence_threshold 0.6 is 6 and a perfect match is 10.  *)
(*  - An embedding is a point of a small metric space (Embeddings); the    *)
(*    store's cosine score of two embeddings falls with their distance.    *)
(*  - The vector ids "<person>_embedding_<i>" of one person are grouped    *)
(*    in id ranges: range r < MaxSingles is the single id i = r, the last  *)
(*    range holds every id from MaxSingles up to DeleteTopK, so that one   *)
(*    person can own DeleteTopK + 1 vectors.  All vectors of one range     *)
(*    carry the same embedding; the index keeps how many are present.      *)
(*  - A call is modelled by the body of its callee and delivers the       *)
(*    callee's result or exception.  Whether the callee is a coroutine or  *)
(*    a plain function, and whether the call site awaits it, is not part   *)
(*    of the model (api/recognition.py awaits the plain function           *)
(*    search_similar_faces; recognition_service.py calls the coroutine     *)
(*    process_image_for_recognition without awaiting it).  A method that   *)
(*    a call site names and the class under src/ does not define           *)
(*    (db.execute_query on the database client, face_service.              *)
(*    extract_embedding_from_base64) is modelled by what its call site     *)
(*    does with it: it returns what the caller reads, or raises.           *)
(*  - A bulk upsert or delete of the store succeeds or fails as a whole.   *)
(***************************************************************************)
EXTENDS Integers, Sequences, FiniteSets, TLC

VARIABLES
    index,      \* the Pinecone index: (person, id range) -> [emb, count]
    directory,  \* the persons table: the ids that have a row
    face_service, \* the FaceRecognitionService instance: is_initialized, the
                \* warm-ups it ran, its start-up task and the calls on it
    req,        \* the request in progress: its arguments, locals and position
    written,    \* the recognition_logs rows inserted by the request in progress
    resp,       \* the outcome of the last finished call
    deleted     \* history: persons whose last delete returned True and who
                \* were not enrolled again since

vars == <<index, directory, req, written, resp, deleted, face_service>>

(***************************************************************************)
(* Bounds and program constants                                            *)
(***************************************************************************)
MaxSingles == 2

DeleteTopK == 10000

ConfidenceThreshold == 6

Persons == {"A", "B"}

NoPerson == "None"

Embeddings == {0, 1}

NoThreshold == -100

Thresholds == {NoThreshold, 0, 4, 10}

TopKIdentify == 5

TopKBatch == 3

TopKs == {TopKBatch, TopKIdentify}

MaxFaces == 2

MaxBatch == 2

MaxCalls == 2

Qualities == {1, 2}

ExtractFails == -1

Ranges == 0..MaxSingles

RangeSize(r) == IF r < MaxSingles THEN 1 ELSE DeleteTopK + 1 - MaxSingles

Slots == Persons \X Ranges

Min(a, b) == IF a <= b THEN a ELSE b

Abs(a) == IF a < 0 THEN -a ELSE a

RECURSIVE SumOver(_, _)
SumOver(f, S) ==
    IF S = {} THEN 0
    ELSE LET x == CHOOSE y \in S : TRUE IN f[x] + SumOver(f, S \ {x})

(***************************************************************************)
(* FaceRecognitionService: the instance and its start-up                   *)
(***************************************************************************)
Calls == 1..MaxCalls

\* a call of detect_faces or extract_embedding that has not arrived yet
NoCall == [op |-> "none", pc |-> "idle"]

\* the instance after __init__: is_initialized is False and the task
\* created for _initialize_models has not run yet
NewService ==
    [is_initialized |-> FALSE, warm_ups |-> 0, init_task |-> "created",
     calls |-> [c \in Calls |-> NoCall]]

\* the instance once its start-up task has completed
ReadyService ==
    [is_initialized |-> TRUE, warm_ups |-> 1, init_task |-> "done",
     calls |-> [c \in Calls |-> NoCall]]

(***************************************************************************)
(* The vector store (external collaborator reached through self.index)     *)
(***************************************************************************)
EmptyCell == [emb |-> 0, count |-> 0]

EmptyIndex == [s \in Slots |-> EmptyCell]

\* cosine score of the store, scaled by 10
Similarity(q, e) == 10 - 6 * Abs(q - e)

Counts(idx) == [s \in Slots |-> idx[s].count]

PersonCounts(idx, p) == [s \in Slots |-> IF s[1] = p THEN idx[s].count ELSE 0]

\* one match of a query response (match.id is not read by any caller and
\* is left out)
StoreMatch(idx, q, s) ==
    [person_id |-> s[1], score |-> Similarity(q, idx[s].emb)]

\* index.query(vector, top_k): the top_k best-scoring vectors in non-increasing
\* order of score; the order among equal scores is the store's choice
RECURSIVE Ranked(_, _, _, _)
Ranked(idx, q, cnt, k) ==
    LET live == {s \in Slots : cnt[s] > 0} IN
    IF k = 0 \/ live = {} THEN {<<>>}
    ELSE LET best == {s \in live :
                        \A t \in live : Similarity(q, idx[s].emb) >= Similarity(q, idx[t].emb)}
             owners == {s[1] : s \in best}
             pick(p) == CHOOSE s \in best : s[1] = p
         IN UNION {{<<StoreMatch(idx, q, pick(p))>> \o r :
                        r \in Ranked(idx, q, [cnt EXCEPT ![pick(p)] = @ - 1], k - 1)} :
                   p \in owners}

QueryResponses(idx, q, top_k) == Ranked(idx, q, Counts(idx), top_k)

StoreDown == [ok |-> FALSE, matches |-> <<>>]

StoreAnswers(idx, q, top_k) ==
    {StoreDown} \cup {[ok |-> TRUE, matches |-> r] : r \in QueryResponses(idx, q, top_k)}

(***************************************************************************)
(* VectorDatabaseService                                                   *)
(***************************************************************************)
\* threshold = settings.confidence_threshold when the argument is None
EffectiveThreshold(threshold) ==
    IF threshold = NoThreshold THEN ConfidenceThreshold ELSE threshold

ToMatch(m) == [person_id |-> m.person_id, similarity |-> m.score]

\* mutant: the threshold test is dropped
RECURSIVE FilterNothing(_, _)
FilterNothing(store_matches, threshold) ==
    IF store_matches = <<>> THEN <<>>
    ELSE <<ToMatch(Head(store_matches))>> \o FilterNothing(Tail(store_matches), threshold)

\* the loop that keeps the store's matches at or above the threshold
RECURSIVE FilterByThreshold(_, _)
FilterByThreshold(store_matches, threshold) ==
    IF store_matches = <<>> THEN <<>>
    ELSE LET m == Head(store_matches)
             rest == FilterByThreshold(Tail(store_matches), threshold)
         IN IF m.score >= threshold THEN <<ToMatch(m)>> \o rest ELSE rest

\* mutant: a later match of a person always replaces the earlier one
RECURSIVE GroupByPersonKeepLast(_, _)
GroupByPersonKeepLast(matches, person_matches) ==
    IF matches = <<>> THEN person_matches
    ELSE LET m == Head(matches)
             pos == {i \in 1..Len(person_matches) :
                        person_matches[i].person_id = m.person_id}
         IN IF pos = {}
            THEN GroupByPersonKeepLast(Tail(matches), Append(person_matches, m))
            ELSE LET i == CHOOSE j \in pos : TRUE IN
                 GroupByPersonKeepLast(Tail(matches), [person_matches EXCEPT ![i] = m])

\* person_matches: a dict keyed by person_id, kept here as the sequence of its
\* values in insertion order (replacing a value keeps the key's position)
RECURSIVE GroupByPerson(_, _)
GroupByPerson(matches, person_matches) ==
    IF matches = <<>> THEN person_matches
    ELSE LET m == Head(matches)
             pos == {i \in 1..Len(person_matches) :
                        person_matches[i].person_id = m.person_id}
         IN IF pos = {}
            THEN GroupByPerson(Tail(matches), Append(person_matches, m))
            ELSE LET i == CHOOSE j \in pos : TRUE IN
                 IF m.similarity > person_matches[i].similarity
                 THEN GroupByPerson(Tail(matches), [person_matches EXCEPT ![i] = m])
                 ELSE GroupByPerson(Tail(matches), person_matches)

\* an insertion that sorts by rising similarity (reverse=True left out)
InsertAscending(m, sorted) ==
    LET before == {i \in 1..Len(sorted) : sorted[i].similarity <= m.similarity}
        n == Cardinality(before)
    IN SubSeq(sorted, 1, n) \o <<m>> \o SubSeq(sorted, n + 1, Len(sorted))

\* sorted(..., key=similarity, reverse=True): a stable sort
InsertSorted(m, sorted) ==
    LET before == {i \in 1..Len(sorted) : sorted[i].similarity >= m.similarity}
        n == Cardinality(before)
    IN SubSeq(sorted, 1, n) \o <<m>> \o SubSeq(sorted, n + 1, Len(sorted))

RECURSIVE SortBySimilarity(_, _)
SortBySimilarity(values, sorted) ==
    IF values = <<>> THEN sorted
    ELSE SortBySimilarity(Tail(values), InsertSorted(Head(values), sorted))

\* a search that answers a failure of the store with an empty list
SearchSwallowsFailure(answer, threshold) ==
    [exc |-> "",
     matches |-> IF ~answer.ok THEN <<>>
                 ELSE SortBySimilarity(
                          GroupByPerson(
                              FilterByThreshold(answer.matches, EffectiveThreshold(threshold)),
                              <<>>),
                          <<>>)]

\* search_similar_faces on the store's answer: [exc, matches]
SearchSimilarFaces(answer, threshold) ==
    IF ~answer.ok
    THEN [exc |-> "VectorDatabaseException", matches |-> <<>>]
    ELSE [exc |-> "",
          matches |-> SortBySimilarity(
                          GroupByPerson(
                              FilterByThreshold(answer.matches, EffectiveThreshold(threshold)),
                              <<>>),
                          <<>>)]

\* the embeddings argument of an upsert: one embedding per id range written
UpsertArgs == UNION {[0..(n - 1) -> Embeddings] : n \in 1..(MaxSingles + 1)}

UpsertedIndex(idx, person_id, embeddings) ==
    [s \in Slots |->
        IF s[1] = person_id /\ s[2] \in DOMAIN embeddings
        THEN [emb |-> embeddings[s[2]], count |-> RangeSize(s[2])]
        ELSE idx[s]]

\* what delete_person_embeddings can leave of a person's vectors: its query
\* returns at most DeleteTopK of them, and only those ids are deleted
Remainders(idx, person_id) ==
    LET have == PersonCounts(idx, person_id)
        total == SumOver(have, Slots)
        left == total - Min(total, DeleteTopK)
    IN {c \in [Slots -> 0..left] :
            /\ \A s \in Slots : c[s] <= have[s]
            /\ SumOver(c, Slots) = left}

DeletedIndex(idx, person_id, remainder) ==
    [s \in Slots |->
        IF s[1] = person_id
        THEN IF remainder[s] = 0 THEN EmptyCell
             ELSE [emb |-> idx[s].emb, count |-> remainder[s]]
        ELSE idx[s]]

(***************************************************************************)
(* Calls on the index service                                              *)
(***************************************************************************)
IndexResp(op, person, q, top_k, threshold, exc, answer, matches) ==
    [op |-> op, person |-> person, query |-> q, top_k |-> top_k,
     threshold |-> threshold, exc |-> exc, answer |-> answer, matches |-> matches]

upsert_person_embeddings(person_id, embeddings, store_ok) ==
    /\ index' = IF store_ok THEN UpsertedIndex(index, person_id, embeddings) ELSE index
    /\ deleted' = IF store_ok THEN deleted \ {person_id} ELSE deleted
    /\ resp' = IndexResp("upsert", person_id, 0, 0, NoThreshold,
                         IF store_ok THEN "" ELSE "VectorDatabaseException",
                         StoreDown, <<>>)
    /\ UNCHANGED <<directory, face_service, req, written>>

delete_person_embeddings(person_id, store_ok, remainder) ==
    /\ index' = IF store_ok THEN DeletedIndex(index, person_id, remainder) ELSE index
    /\ deleted' = IF store_ok THEN deleted \cup {person_id} ELSE deleted
    /\ resp' = IndexResp("delete", person_id, 0, 0, NoThreshold,
                         IF store_ok THEN "" ELSE "VectorDatabaseException",
                         StoreDown, <<>>)
    /\ UNCHANGED <<directory, face_service, req, written>>

search_similar_faces(query_embedding, top_k, threshold, answer) ==
    LET out == SearchSimilarFaces(answer, threshold) IN
    /\ resp' = IndexResp("search", NoPerson, query_embedding, top_k, threshold,
                         out.exc, answer, out.matches)
    /\ UNCHANGED <<index, deleted, directory, face_service, req, written>>

Upsert ==
    /\ resp.op = "none"
    /\ \E p \in Persons, e \in UpsertArgs, ok \in BOOLEAN :
        upsert_person_embeddings(p, e, ok)

Delete ==
    /\ resp.op = "none"
    /\ \E p \in Persons, ok \in BOOLEAN :
        \E rem \in Remainders(index, p) :
            delete_person_embeddings(p, ok, rem)

Search ==
    /\ resp.op = "none"
    /\ \E q \in Embeddings, k \in TopKs :
        \E a \in StoreAnswers(index, q, k) :
            \E t \in Thresholds : search_similar_faces(q, k, t, a)

NoResp == IndexResp("none", NoPerson, 0, 0, NoThreshold, "", StoreDown, <<>>)

\* the caller takes the outcome of its call; the next call can start
Return ==
    /\ resp.op # "none"
    /\ resp' = NoResp
    /\ UNCHANGED <<index, deleted, directory, face_service, req, written>>

Idle == [op |-> "none", pc |-> "idle"]

Init ==
    /\ index = EmptyIndex
    /\ directory = Persons
    /\ face_service = ReadyService
    /\ req = Idle
    /\ written = <<>>
    /\ deleted = {}
    /\ resp = NoResp

Next == Upsert \/ Delete \/ Search \/ Return

Spec == Init /\ [][Next]_vars

(***************************************************************************)
(* FaceRecognitionService: the image pipeline                              *)
(*                                                                         *)
(* An image is what the decoder, the detector and the embedding model make *)
(* of it: whether it decodes, whether detection runs, and for every        *)
(* detected face its quality score and the embedding the model extracts    *)
(* (or ExtractFails when the extraction of that face raises).              *)
(***************************************************************************)
Faces == [quality_score : Qualities, extract : Embeddings \cup {ExtractFails}]

FaceLists == UNION {[1..n -> Faces] : n \in 0..MaxFaces}

Images ==
    {[decodes |-> FALSE, detects |-> TRUE, faces |-> <<>>],
     [decodes |-> TRUE, detects |-> FALSE, faces |-> <<>>]}
    \cup {[decodes |-> TRUE, detects |-> TRUE, faces |-> f] : f \in FaceLists}

\* detect_faces: [exc, faces]
detect_faces(image) ==
    IF ~image.detects THEN [exc |-> "FaceRecognitionException", faces |-> <<>>]
    ELSE IF image.faces = <<>> THEN [exc |-> "NoFaceDetectedException", faces |-> <<>>]
    ELSE [exc |-> "", faces |-> image.faces]

\* the loop over the detected faces: a face whose extraction raises is skipped
RECURSIVE ExtractEach(_)
ExtractEach(faces) ==
    IF faces = <<>> THEN <<>>
    ELSE LET f == Head(faces) IN
         IF f.extract = ExtractFails THEN ExtractEach(Tail(faces))
         ELSE <<[embedding |-> f.extract, quality_score |-> f.quality_score]>>
              \o ExtractEach(Tail(faces))

\* an extraction that returns an empty list when no face gave an embedding
ExtractReturnsEmpty(image) ==
    LET d == detect_faces(image) IN
    IF d.exc # "" THEN [exc |-> d.exc, embeddings_data |-> <<>>, extract_calls |-> 0]
    ELSE [exc |-> "", embeddings_data |-> ExtractEach(d.faces),
          extract_calls |-> Len(d.faces)]

\* extract_multiple_embeddings: [exc, embeddings_data, extract_calls]
extract_multiple_embeddings(image) ==
    LET d == detect_faces(image) IN
    IF d.exc # "" THEN [exc |-> d.exc, embeddings_data |-> <<>>, extract_calls |-> 0]
    ELSE IF Len(d.faces) = 0
    THEN [exc |-> "NoFaceDetectedException", embeddings_data |-> <<>>, extract_calls |-> 0]
    ELSE LET data == ExtractEach(d.faces) IN
         IF data = <<>>
         THEN [exc |-> "FaceRecognitionException", embeddings_data |-> <<>>,
               extract_calls |-> Len(d.faces)]
         ELSE [exc |-> "", embeddings_data |-> data, extract_calls |-> Len(d.faces)]

\* a processing that answers an image that does not decode with no embeddings
ProcessReturnsEmpty(image) ==
    IF ~image.decodes
    THEN [exc |-> "", embeddings_data |-> <<>>, extract_calls |-> 0]
    ELSE extract_multiple_embeddings(image)

\* process_image_for_recognition: [exc, embeddings_data, extract_calls]
process_image_for_recognition(image) ==
    IF ~image.decodes
    THEN [exc |-> "InvalidImageException", embeddings_data |-> <<>>, extract_calls |-> 0]
    ELSE extract_multiple_embeddings(image)

\* max(embeddings_data, key=quality_score): the first entry of maximal quality
BestEmbedding(embeddings_data) ==
    LET i == CHOOSE k \in 1..Len(embeddings_data) :
                /\ \A j \in 1..Len(embeddings_data) :
                        embeddings_data[j].quality_score <= embeddings_data[k].quality_score
                /\ \A j \in 1..(k - 1) :
                        embeddings_data[j].quality_score < embeddings_data[k].quality_score
    IN embeddings_data[i]

(***************************************************************************)
(* Requests, results and audit rows                                        *)
(***************************************************************************)
Result(person_id, person_name, confidence, status) ==
    [person_id |-> person_id, person_name |-> person_name,
     confidence |-> confidence, status |-> status]

NoResult == Result(NoPerson, NoPerson, 0, "none")

LogRow(result) ==
    [person_id |-> result.person_id, confidence |-> result.confidence,
     status |-> result.status]

\* a request before its first step
NewRequest(op, image, threshold) ==
    [op |-> op, pc |-> "start", threshold |-> threshold,
     \* what the image holds (inputs of the request)
     decodes |-> image.decodes, detects |-> image.detects,
     nfaces |-> Len(image.faces),
     \* locals of the handler
     extract_calls |-> 0, extracted |-> 0,
     query |-> 0, searched |-> FALSE, search_exc |-> "",
     matches |-> <<>>, pending |-> NoResult,
     \* the calls of the store and of the database that failed during the request
     faults |-> {}]

HandlerResp(op, exc, code, result) ==
    [op |-> op, exc |-> exc, code |-> code, result |-> result]

\* the request ends by raising exc with the HTTP status code
Raise(r, exc, code) ==
    /\ req' = [r EXCEPT !.pc = "done"]
    /\ resp' = HandlerResp(r.op, exc, code, NoResult)

\* the request ends by returning result
Answer(r, result) ==
    /\ req' = [r EXCEPT !.pc = "done"]
    /\ resp' = HandlerResp(r.op, "", 200, result)

\* get_person_by_id and the name the handlers derive from it
PersonName(person_id) == IF person_id \in directory THEN person_id ELSE "Unknown"

(***************************************************************************)
(* POST /identify (api/recognition.py, identify_face)                      *)
(***************************************************************************)
\* similarity_threshold = threshold or face_service.similarity_threshold
RequestThreshold(threshold) ==
    IF threshold = NoThreshold \/ threshold = 0 THEN ConfidenceThreshold ELSE threshold

\* the handler up to its first call of the vector store
identify_face_process(image, threshold) ==
    LET r == NewRequest("identify_face", image, threshold)
        p == process_image_for_recognition(image)
        r1 == [r EXCEPT !.extract_calls = p.extract_calls,
                        !.extracted = Len(p.embeddings_data)]
    IN
    /\ req.pc = "idle" /\ resp.op = "none"
    /\ IF p.exc # ""
       THEN Raise(r1, p.exc, 400)
       ELSE IF p.embeddings_data = <<>>
       THEN /\ req' = [r1 EXCEPT !.pc = "log", !.pending = Result(NoPerson, NoPerson, 0, "no_face")]
            /\ UNCHANGED resp
       ELSE /\ req' = [r1 EXCEPT !.pc = "search",
                                 !.query = BestEmbedding(p.embeddings_data).embedding]
            /\ UNCHANGED resp
    /\ written' = <<>>
    /\ UNCHANGED <<index, directory, face_service, deleted>>

identify_face_search(answer) ==
    LET out == SearchSimilarFaces(answer, RequestThreshold(req.threshold))
        r1 == [req EXCEPT !.searched = TRUE, !.search_exc = out.exc,
                          !.matches = out.matches,
                          !.faults = IF answer.ok THEN @ ELSE @ \cup {"store"}]
    IN
    /\ req.op = "identify_face" /\ req.pc = "search"
    /\ IF out.exc # ""
       THEN Raise(r1, "HTTPException", 500)
       ELSE IF out.matches # <<>>
       THEN /\ req' = [r1 EXCEPT !.pc = "lookup"]
            /\ UNCHANGED resp
       ELSE /\ req' = [r1 EXCEPT !.pc = "log",
                                 !.pending = Result(NoPerson, NoPerson, 0, "no_match")]
            /\ UNCHANGED resp
    /\ UNCHANGED <<index, directory, face_service, deleted, written>>

identify_face_lookup(db_ok) ==
    LET best_match == req.matches[1] IN
    /\ req.op = "identify_face" /\ req.pc = "lookup"
    /\ IF ~db_ok
       THEN Raise([req EXCEPT !.faults = @ \cup {"lookup"}], "HTTPException", 500)
       ELSE /\ req' = [req EXCEPT !.pc = "log",
                                  !.pending = Result(best_match.person_id,
                                                     PersonName(best_match.person_id),
                                                     best_match.similarity, "success")]
            /\ UNCHANGED resp
    /\ UNCHANGED <<index, directory, face_service, deleted, written>>

identify_face_log(db_ok) ==
    /\ req.op = "identify_face" /\ req.pc = "log"
    /\ IF ~db_ok
       THEN /\ Raise([req EXCEPT !.faults = @ \cup {"log"}], "HTTPException", 500)
            /\ UNCHANGED written
       ELSE /\ written' = Append(written, LogRow(req.pending))
            /\ Answer(req, req.pending)
    /\ UNCHANGED <<index, directory, face_service, deleted>>

(***************************************************************************)
(* RecognitionService.identify_person                                      *)
(***************************************************************************)
identify_person_process(image, threshold) ==
    LET r == NewRequest("identify_person", image, threshold)
        p == process_image_for_recognition(image)
        r1 == [r EXCEPT !.extract_calls = p.extract_calls,
                        !.extracted = Len(p.embeddings_data)]
    IN
    /\ req.pc = "idle" /\ resp.op = "none"
    /\ req' = IF p.exc = "NoFaceDetectedException" \/ (p.exc = "" /\ p.embeddings_data = <<>>)
              THEN [r1 EXCEPT !.pc = "log", !.pending = Result(NoPerson, NoPerson, 0, "no_face")]
              ELSE IF p.exc # ""
              THEN [r1 EXCEPT !.pc = "log", !.pending = Result(NoPerson, NoPerson, 0, "error")]
              ELSE [r1 EXCEPT !.pc = "search",
                              !.query = BestEmbedding(p.embeddings_data).embedding]
    /\ written' = <<>>
    /\ UNCHANGED <<index, directory, face_service, deleted, resp>>

identify_person_search(answer) ==
    LET out == SearchSimilarFaces(answer, EffectiveThreshold(req.threshold))
        r1 == [req EXCEPT !.searched = TRUE, !.search_exc = out.exc,
                          !.matches = out.matches,
                          !.faults = IF answer.ok THEN @ ELSE @ \cup {"store"}]
    IN
    /\ req.op = "identify_person" /\ req.pc = "search"
    /\ req' = IF out.exc # ""
              THEN [r1 EXCEPT !.pc = "log", !.pending = Result(NoPerson, NoPerson, 0, "error")]
              ELSE IF out.matches # <<>>
              THEN [r1 EXCEPT !.pc = "lookup"]
              ELSE [r1 EXCEPT !.pc = "log", !.pending = Result(NoPerson, NoPerson, 0, "no_match")]
    /\ UNCHANGED <<index, directory, face_service, deleted, written, resp>>

identify_person_lookup(db_ok) ==
    LET best_match == req.matches[1] IN
    /\ req.op = "identify_person" /\ req.pc = "lookup"
    /\ req' = IF ~db_ok
              THEN [req EXCEPT !.pc = "log", !.faults = @ \cup {"lookup"},
                               !.pending = Result(NoPerson, NoPerson, 0, "error")]
              ELSE [req EXCEPT !.pc = "log",
                               !.pending = Result(best_match.person_id,
                                                  PersonName(best_match.person_id),
                                                  best_match.similarity, "success")]
    /\ UNCHANGED <<index, directory, face_service, deleted, written, resp>>

\* _log_recognition, which swallows a failed insert, and the end of the call
\* a log step that also removes the identified person from the directory
LogForgetsPerson(db_ok) ==
    LET r1 == [req EXCEPT !.faults = IF db_ok THEN @ ELSE @ \cup {"log"}] IN
    /\ req.op = "identify_person" /\ req.pc = "log"
    /\ written' = IF db_ok THEN Append(written, LogRow(req.pending)) ELSE written
    /\ IF req.pending.status = "error"
       THEN Raise(r1, "FaceRecognitionException", 400)
       ELSE Answer(r1, req.pending)
    /\ directory' = directory \ {req.pending.person_id}
    /\ UNCHANGED <<index, face_service, deleted>>

identify_person_log(db_ok) ==
    LET r1 == [req EXCEPT !.faults = IF db_ok THEN @ ELSE @ \cup {"log"}] IN
    /\ req.op = "identify_person" /\ req.pc = "log"
    /\ written' = IF db_ok THEN Append(written, LogRow(req.pending)) ELSE written
    /\ IF req.pending.status = "error"
       THEN Raise(r1, "FaceRecognitionException", 400)
       ELSE Answer(r1, req.pending)
    /\ UNCHANGED <<index, directory, face_service, deleted>>

IdentifyFaceProcess ==
    \E image \in Images, t \in Thresholds : identify_face_process(image, t)

IdentifyFaceSearch ==
    /\ req.op = "identify_face" /\ req.pc = "search"
    /\ \E a \in StoreAnswers(index, req.query, TopKIdentify) : identify_face_search(a)

IdentifyFaceLookup == \E ok \in BOOLEAN : identify_face_lookup(ok)

IdentifyFaceLog == \E ok \in BOOLEAN : identify_face_log(ok)

IdentifyPersonProcess ==
    \E image \in Images, t \in Thresholds : identify_person_process(image, t)

IdentifyPersonSearch ==
    /\ req.op = "identify_person" /\ req.pc = "search"
    /\ \E a \in StoreAnswers(index, req.query, TopKIdentify) : identify_person_search(a)

IdentifyPersonLookup == \E ok \in BOOLEAN : identify_person_lookup(ok)

IdentifyPersonLog == \E ok \in BOOLEAN : identify_person_log(ok)

\* the enrolments a person can have made when a request arrives: none, one
\* embedding, or two
Enrolments == {<<>>} \cup [{0} -> Embeddings] \cup [{0, 1} -> Embeddings]

\* the indexes that these enrolments produce
EnrolledIndexes ==
    LET enrol(idx, p, e) == IF e = <<>> THEN idx ELSE UpsertedIndex(idx, p, e)
    IN {enrol(enrol(EmptyIndex, "A", ea), "B", eb) : ea \in Enrolments, eb \in Enrolments}

InitIdentify ==
    /\ index \in EnrolledIndexes
    /\ directory \in SUBSET Persons
    /\ face_service = ReadyService
    /\ req = Idle
    /\ written = <<>>
    /\ deleted = {}
    /\ resp = NoResp

\* the caller takes the outcome; the next request can start
Finish ==
    /\ req.pc = "done"
    /\ req' = Idle
    /\ resp' = NoResp
    /\ written' = <<>>
    /\ UNCHANGED <<index, directory, face_service, deleted>>

NextIdentify ==
    \/ IdentifyFaceProcess \/ IdentifyFaceSearch \/ IdentifyFaceLookup \/ IdentifyFaceLog
    \/ IdentifyPersonProcess \/ IdentifyPersonSearch \/ IdentifyPersonLookup
    \/ IdentifyPersonLog
    \/ Finish

SpecIdentify == InitIdentify /\ [][NextIdentify]_vars

(***************************************************************************)
(* POST /batch-identify (api/recognition.py, batch_identify_faces)         *)
(***************************************************************************)
BatchEntry(i, result) ==
    [image_index |-> i, person_id |-> result.person_id,
     person_name |-> result.person_name, confidence |-> result.confidence,
     status |-> result.status]

\* the entry appended by the except clause of the loop body
ErrorEntry(i) == BatchEntry(i, Result(NoPerson, NoPerson, 0, "error"))

\* what the loop body reads of process_image_for_recognition: the exception
\* it raised, whether embeddings_data is non-empty, and the embedding of the
\* best face
Processed(image) ==
    LET p == process_image_for_recognition(image) IN
    [exc |-> p.exc,
     found |-> p.embeddings_data # <<>>,
     query |-> IF p.embeddings_data # <<>>
               THEN BestEmbedding(p.embeddings_data).embedding ELSE 0]

\* the body of the try block up to results.append(result): the result dict,
\* or raised when a call inside it raises
BatchResult(processed, threshold, answer, lookup_ok) ==
    IF processed.exc # "" THEN [raised |-> TRUE, result |-> NoResult]
    ELSE IF ~processed.found
    THEN [raised |-> FALSE, result |-> Result(NoPerson, NoPerson, 0, "no_face")]
    ELSE LET out == SearchSimilarFaces(answer, RequestThreshold(threshold)) IN
         IF out.exc # "" THEN [raised |-> TRUE, result |-> NoResult]
         ELSE IF out.matches # <<>>
         THEN IF ~lookup_ok THEN [raised |-> TRUE, result |-> NoResult]
              ELSE [raised |-> FALSE,
                    result |-> Result(out.matches[1].person_id,
                                      PersonName(out.matches[1].person_id),
                                      out.matches[1].similarity, "success")]
         ELSE [raised |-> FALSE, result |-> Result(NoPerson, NoPerson, 0, "no_match")]

\* one iteration of the loop: the entries it appends to results and the rows
\* it writes to the recognition log
BatchItem(i, processed, threshold, save_logs, answer, lookup_ok, log_ok) ==
    LET b == BatchResult(processed, threshold, answer, lookup_ok) IN
    IF b.raised THEN [entries |-> <<ErrorEntry(i)>>, rows |-> <<>>]
    ELSE IF ~save_logs THEN [entries |-> <<BatchEntry(i, b.result)>>, rows |-> <<>>]
    ELSE IF log_ok
    THEN [entries |-> <<BatchEntry(i, b.result)>>, rows |-> <<LogRow(b.result)>>]
    ELSE [entries |-> <<BatchEntry(i, b.result), ErrorEntry(i)>>, rows |-> <<>>]

\* a loop in which an item that ends in error discards the results so far
ResultsLostOnError(results, entries) ==
    IF \E k \in 1..Len(entries) : entries[k].status = "error"
    THEN entries ELSE results \o entries

\* results.append
AppendResults(results, entries) == results \o entries

CountStatus(results, statuses) ==
    Cardinality({k \in 1..Len(results) : results[k].status \in statuses})

BatchResp(exc, code, results, total_images) ==
    [op |-> "batch", exc |-> exc, code |-> code, batch_results |-> results,
     total_images |-> total_images,
     successful_identifications |-> CountStatus(results, {"success"}),
     failed_identifications |-> CountStatus(results, {"no_face", "no_match", "error"})]

\* the call arrives with n images
batch_identify_faces(n, threshold, save_logs) ==
    /\ req.pc = "idle" /\ resp.op = "none"
    /\ req' = [op |-> "batch", pc |-> "loop", threshold |-> threshold,
               save_logs |-> save_logs, n |-> n, i |-> 0, results |-> <<>>,
               \* what each image held, and whether its search failed
               inputs |-> <<>>, store_failed |-> <<>>]
    /\ written' = <<>>
    /\ UNCHANGED <<index, directory, face_service, deleted, resp>>

\* the iteration for image i
batch_identify_item(processed, answer, lookup_ok, log_ok) ==
    LET it == BatchItem(req.i, processed, req.threshold, req.save_logs,
                        answer, lookup_ok, log_ok)
    IN
    /\ req' = [req EXCEPT !.i = @ + 1,
                          !.results = AppendResults(@, it.entries),
                          !.inputs = Append(@, processed),
                          !.store_failed = Append(@, processed.found /\ ~answer.ok)]
    /\ written' = written \o it.rows
    /\ UNCHANGED <<index, directory, face_service, deleted, resp>>

\* after the loop: the summary and the response
batch_identify_return ==
    /\ req.op = "batch" /\ req.pc = "loop" /\ req.i = req.n
    /\ req' = [req EXCEPT !.pc = "done"]
    /\ resp' = BatchResp("", 200, req.results, req.n)
    /\ UNCHANGED <<index, directory, face_service, deleted, written>>

BatchStart ==
    \E n \in 0..MaxBatch, t \in Thresholds, save_logs \in BOOLEAN :
        batch_identify_faces(n, t, save_logs)

BatchNext ==
    /\ req.op = "batch" /\ req.pc = "loop" /\ req.i < req.n
    /\ \E processed \in {Processed(image) : image \in Images} :
        \E a \in IF processed.found
                 THEN StoreAnswers(index, processed.query, TopKBatch)
                 ELSE {StoreDown} :
            \E lookup_ok, log_ok \in BOOLEAN :
                batch_identify_item(processed, a, lookup_ok, log_ok)

BatchReturn == batch_identify_return

(***************************************************************************)
(* FaceRecognitionService.batch_process_images                             *)
(***************************************************************************)
\* the entry of image i: the outcome of processing it, or the failure
ProcessEntry(i, p) ==
    [index |-> i, success |-> p.exc = "",
     embeddings_count |-> Len(p.embeddings_data)]

batch_process_images(n) ==
    /\ req.pc = "idle" /\ resp.op = "none"
    /\ req' = [op |-> "batch_process", pc |-> "loop", n |-> n, i |-> 0,
               results |-> <<>>,
               \* what processing each image alone gives
               inputs |-> <<>>]
    /\ written' = <<>>
    /\ UNCHANGED <<index, directory, face_service, deleted, resp>>

batch_process_item(image) ==
    LET p == process_image_for_recognition(image) IN
    /\ req.op = "batch_process" /\ req.pc = "loop" /\ req.i < req.n
    /\ req' = [req EXCEPT !.i = @ + 1,
                          !.results = Append(@, ProcessEntry(req.i, p)),
                          !.inputs = Append(@, [exc |-> p.exc,
                                                found |-> Len(p.embeddings_data)])]
    /\ UNCHANGED <<index, directory, face_service, deleted, written, resp>>

batch_process_return ==
    /\ req.op = "batch_process" /\ req.pc = "loop" /\ req.i = req.n
    /\ req' = [req EXCEPT !.pc = "done"]
    /\ resp' = [op |-> "batch_process", exc |-> "", code |-> 200,
                results |-> req.results]
    /\ UNCHANGED <<index, directory, face_service, deleted, written>>

BatchProcessStart == \E n \in 0..MaxBatch : batch_process_images(n)

BatchProcessNext == \E image \in Images : batch_process_item(image)

BatchProcessReturn == batch_process_return

\* a person enrolled alone, two persons at the same embedding, and two
\* persons at different embeddings, one of them with a second embedding
BatchIndexes ==
    {UpsertedIndex(EmptyIndex, "A", <<0>>),
     UpsertedIndex(UpsertedIndex(EmptyIndex, "A", <<1>>), "B", <<1>>),
     UpsertedIndex(UpsertedIndex(EmptyIndex, "A", <<0, 1>>), "B", <<1>>)}

InitBatch ==
    /\ index \in BatchIndexes
    /\ directory \in {Persons, {"A"}}
    /\ face_service = ReadyService
    /\ req = Idle
    /\ written = <<>>
    /\ deleted = {}
    /\ resp = NoResp

NextBatch ==
    \/ BatchStart \/ BatchNext \/ BatchReturn
    \/ BatchProcessStart \/ BatchProcessNext \/ BatchProcessReturn
    \/ Finish

SpecBatch == InitBatch /\ [][NextBatch]_vars

(***************************************************************************)
(* POST /face-login (api/face_auth.py, face_id_login)                      *)
(*                                                                         *)
(* db.execute_query is the database helper the handler calls; an INSERT    *)
(* appends the row to the audit log or raises, a SELECT returns the rows   *)
(* of the persons table or raises.                                         *)
(***************************************************************************)
\* the columns of a persons row that the handler reads
PersonRows == [active : BOOLEAN, can_use_face_auth : BOOLEAN]

NoRow == [active |-> FALSE, can_use_face_auth |-> FALSE]

\* a row of face_auth_logs
AuthLogRow(person_id, confidence, status) ==
    [person_id |-> person_id, confidence |-> confidence, status |-> status]

\* a check that forgets the face authentication permission
MayLoginIfActive(row) == row.active

\* the checks on the persons row: active, then can_use_face_auth
MayLogin(row) == row.active /\ row.can_use_face_auth

\* a denied row that does not carry the match
DeniedRowWithoutMatch(person_id, confidence) == AuthLogRow(NoPerson, 0, "denied")

\* the row logged when a matched person is refused
DeniedRow(person_id, confidence) == AuthLogRow(person_id, confidence, "denied")

LoginResp(exc, code, token, person_id, confidence) ==
    [op |-> "face_login", exc |-> exc, code |-> code, token |-> token,
     person_id |-> person_id, confidence |-> confidence]

LoginRaise(r, exc, code) ==
    /\ req' = [r EXCEPT !.pc = "done"]
    /\ resp' = LoginResp(exc, code, FALSE, NoPerson, 0)

\* the handler up to its call of the vector store
face_login_process(image) ==
    LET p == process_image_for_recognition(image)
        r == [op |-> "face_login", pc |-> "start",
              decodes |-> image.decodes, detects |-> image.detects,
              nfaces |-> Len(image.faces), extract_calls |-> p.extract_calls,
              query |-> 0, searched |-> FALSE, matches |-> <<>>,
              \* the persons row found for the best match, if any
              found |-> FALSE, person |-> NoRow,
              \* the calls of create_access_token made by the request
              tokens |-> 0,
              \* the row to insert and the answer that follows it
              pending_row |-> AuthLogRow(NoPerson, 0, "none"),
              pending_exc |-> "", pending_code |-> 0,
              faults |-> {}]
    IN
    /\ req.pc = "idle" /\ resp.op = "none"
    /\ IF p.exc # ""
       THEN LoginRaise(r, p.exc, 400)
       ELSE IF p.embeddings_data = <<>>
       THEN /\ req' = [r EXCEPT !.pc = "log",
                                !.pending_row = AuthLogRow(NoPerson, 0, "no_face"),
                                !.pending_exc = "HTTPException", !.pending_code = 400]
            /\ UNCHANGED resp
       ELSE /\ req' = [r EXCEPT !.pc = "search",
                                !.query = BestEmbedding(p.embeddings_data).embedding]
            /\ UNCHANGED resp
    /\ written' = <<>>
    /\ UNCHANGED <<index, directory, face_service, deleted>>

face_login_search(answer) ==
    LET out == SearchSimilarFaces(answer, ConfidenceThreshold)
        r1 == [req EXCEPT !.searched = TRUE, !.matches = out.matches,
                          !.faults = IF answer.ok THEN @ ELSE @ \cup {"store"}]
    IN
    /\ req.op = "face_login" /\ req.pc = "search"
    /\ IF out.exc # ""
       THEN LoginRaise(r1, out.exc, 500)
       ELSE IF out.matches = <<>>
       THEN /\ req' = [r1 EXCEPT !.pc = "log",
                                 !.pending_row = AuthLogRow(NoPerson, 0, "no_match"),
                                 !.pending_exc = "HTTPException", !.pending_code = 401]
            /\ UNCHANGED resp
       ELSE /\ req' = [r1 EXCEPT !.pc = "lookup"]
            /\ UNCHANGED resp
    /\ UNCHANGED <<index, directory, face_service, deleted, written>>

\* the SELECT of the matched person, the checks on the row and, when they
\* pass, create_access_token
face_login_lookup(db_ok, row) ==
    LET person_id == req.matches[1].person_id
        confidence == req.matches[1].similarity
    IN
    /\ req.op = "face_login" /\ req.pc = "lookup"
    /\ IF ~db_ok
       THEN LoginRaise([req EXCEPT !.faults = @ \cup {"lookup"}], "HTTPException", 500)
       ELSE IF person_id \notin directory
       THEN LoginRaise(req, "HTTPException", 404)
       ELSE /\ req' =
                IF ~MayLogin(row)
                THEN [req EXCEPT !.pc = "log", !.found = TRUE, !.person = row,
                                 !.pending_row = DeniedRow(person_id, confidence),
                                 !.pending_exc = "HTTPException", !.pending_code = 403]
                ELSE [req EXCEPT !.pc = "log", !.found = TRUE, !.person = row,
                                 !.tokens = @ + 1,
                                 !.pending_row = AuthLogRow(person_id, confidence, "success"),
                                 !.pending_exc = "", !.pending_code = 200]
            /\ UNCHANGED resp
    /\ UNCHANGED <<index, directory, face_service, deleted, written>>

\* the INSERT into face_auth_logs and the answer of the handler
face_login_log(db_ok) ==
    /\ req.op = "face_login" /\ req.pc = "log"
    /\ IF ~db_ok
       THEN /\ LoginRaise([req EXCEPT !.faults = @ \cup {"log"}], "HTTPException", 500)
            /\ UNCHANGED written
       ELSE /\ written' = Append(written, req.pending_row)
            /\ req' = [req EXCEPT !.pc = "done"]
            /\ resp' = IF req.pending_exc # ""
                       THEN LoginResp(req.pending_exc, req.pending_code, FALSE, NoPerson, 0)
                       ELSE LoginResp("", 200, TRUE, req.pending_row.person_id,
                                      req.pending_row.confidence)
    /\ UNCHANGED <<index, directory, face_service, deleted>>

FaceLoginProcess == \E image \in Images : face_login_process(image)

FaceLoginSearch ==
    /\ req.op = "face_login" /\ req.pc = "search"
    /\ \E a \in StoreAnswers(index, req.query, TopKIdentify) : face_login_search(a)

FaceLoginLookup == \E ok \in BOOLEAN, row \in PersonRows : face_login_lookup(ok, row)

FaceLoginLog == \E ok \in BOOLEAN : face_login_log(ok)

NextLogin ==
    FaceLoginProcess \/ FaceLoginSearch \/ FaceLoginLookup \/ FaceLoginLog \/ Finish

SpecLogin == InitIdentify /\ [][NextLogin]_vars

(***************************************************************************)
(* FaceRecognitionService: start-up warm-up against arriving calls         *)
(*                                                                         *)
(* The coroutines run on one event loop: a step of the model is what a     *)
(* coroutine does between two suspensions.  run_in_executor hands the job  *)
(* to the thread pool and suspends the coroutine until the job has ended.  *)
(***************************************************************************)
\* a guard that never initialises
InitializedNotChecked(is_initialized) == FALSE

\* if not self.is_initialized: await self._initialize_models()
MustInitialize(is_initialized) == ~is_initialized

\* the task created by __init__ starts _initialize_models: the warm-up is
\* handed to the thread pool
init_task_start ==
    /\ face_service.init_task = "created"
    /\ face_service' = [face_service EXCEPT !.init_task = "warming",
                                            !.warm_ups = @ + 1]
    /\ UNCHANGED <<index, directory, req, written, resp, deleted>>

\* the warm-up of the task ends: is_initialized = True, or the exception of
\* the warm-up ends the task
init_task_end(warm_up_ok) ==
    /\ face_service.init_task = "warming"
    /\ face_service' =
            IF warm_up_ok
            THEN [face_service EXCEPT !.init_task = "done", !.is_initialized = TRUE]
            ELSE [face_service EXCEPT !.init_task = "failed"]
    /\ UNCHANGED <<index, directory, req, written, resp, deleted>>

\* detect_faces / extract_embedding is called: the guard on is_initialized,
\* then either _initialize_models (a warm-up handed to the thread pool) or
\* the inference job handed to the thread pool
service_call(c, op) ==
    /\ face_service.calls[c].pc = "idle"
    /\ face_service' =
            IF MustInitialize(face_service.is_initialized)
            THEN [face_service EXCEPT !.calls[c] = [op |-> op, pc |-> "initializing"],
                                      !.warm_ups = @ + 1]
            ELSE [face_service EXCEPT !.calls[c] = [op |-> op, pc |-> "inference"]]
    /\ UNCHANGED <<index, directory, req, written, resp, deleted>>

\* the warm-up awaited by a call ends: is_initialized = True and the
\* inference job is handed to the thread pool, or FaceRecognitionException
service_call_initialized(c, warm_up_ok) ==
    /\ face_service.calls[c].pc = "initializing"
    /\ face_service' =
            IF warm_up_ok
            THEN [face_service EXCEPT !.is_initialized = TRUE,
                                      !.calls[c].pc = "inference"]
            ELSE [face_service EXCEPT !.calls[c].pc = "raised"]
    /\ UNCHANGED <<index, directory, req, written, resp, deleted>>

\* the inference job of a call ends and the call returns or raises
service_call_end(c) ==
    /\ face_service.calls[c].pc = "inference"
    /\ face_service' = [face_service EXCEPT !.calls[c].pc = "returned"]
    /\ UNCHANGED <<index, directory, req, written, resp, deleted>>

InitTaskStart == init_task_start

InitTaskEnd == \E ok \in BOOLEAN : init_task_end(ok)

ServiceCall ==
    \E c \in Calls, op \in {"detect_faces", "extract_embedding"} : service_call(c, op)

ServiceCallInitialized ==
    \E c \in Calls, ok \in BOOLEAN : service_call_initialized(c, ok)

ServiceCallEnd == \E c \in Calls : service_call_end(c)

InitWarmup ==
    /\ index = EmptyIndex
    /\ directory = Persons
    /\ face_service = NewService
    /\ req = Idle
    /\ written = <<>>
    /\ deleted = {}
    /\ resp = NoResp

NextWarmup ==
    \/ InitTaskStart \/ InitTaskEnd
    \/ ServiceCall \/ ServiceCallInitialized \/ ServiceCallEnd

SpecWarmup == InitWarmup /\ [][NextWarmup]_vars

(***************************************************************************)
(* An identification that waits for its collaborators                      *)
(*                                                                         *)
(* RecognitionService.identify_person with its two waits made explicit:    *)
(* the await of the thread-pool jobs of the extractor and the blocking     *)
(* index.query.  The answer of a collaborator is a step of that            *)
(* collaborator; the code sets no timeout on either wait.                  *)
(***************************************************************************)
\* the request arrives and waits for the extractor
identify_wait_start(image, threshold) ==
    /\ req.pc = "idle" /\ resp.op = "none"
    /\ req' = [op |-> "identify_wait", pc |-> "extracting", threshold |-> threshold,
               processed |-> Processed(image), answered |-> FALSE,
               answer |-> StoreDown]
    /\ written' = <<>>
    /\ UNCHANGED <<index, directory, face_service, deleted, resp>>

\* the extractor answers (the jobs running DeepFace end)
extractor_answers ==
    /\ req.op = "identify_wait" /\ req.pc = "extracting" /\ ~req.answered
    /\ req' = [req EXCEPT !.answered = TRUE]
    /\ UNCHANGED <<index, directory, face_service, deleted, written, resp>>

\* the request resumes with the embeddings or the exception and, with
\* embeddings, calls the index
identify_wait_extracted ==
    LET p == req.processed IN
    /\ req.op = "identify_wait" /\ req.pc = "extracting" /\ req.answered
    /\ IF p.exc = "NoFaceDetectedException"
       THEN /\ written' = <<LogRow(Result(NoPerson, NoPerson, 0, "no_face"))>>
            /\ Answer(req, Result(NoPerson, NoPerson, 0, "no_face"))
       ELSE IF p.exc # ""
       THEN /\ written' = <<LogRow(Result(NoPerson, NoPerson, 0, "error"))>>
            /\ Raise(req, "FaceRecognitionException", 400)
       ELSE /\ req' = [req EXCEPT !.pc = "searching", !.answered = FALSE]
            /\ UNCHANGED <<written, resp>>
    /\ UNCHANGED <<index, directory, face_service, deleted>>

\* the index answers the query, or fails
index_answers(answer) ==
    /\ req.op = "identify_wait" /\ req.pc = "searching" /\ ~req.answered
    /\ req' = [req EXCEPT !.answered = TRUE, !.answer = answer]
    /\ UNCHANGED <<index, directory, face_service, deleted, written, resp>>

\* the request resumes with the answer of the index and ends
identify_wait_searched ==
    LET out == SearchSimilarFaces(req.answer, EffectiveThreshold(req.threshold))
        result == IF out.matches # <<>>
                  THEN Result(out.matches[1].person_id,
                              PersonName(out.matches[1].person_id),
                              out.matches[1].similarity, "success")
                  ELSE Result(NoPerson, NoPerson, 0, "no_match")
    IN
    /\ req.op = "identify_wait" /\ req.pc = "searching" /\ req.answered
    /\ IF out.exc # ""
       THEN /\ written' = <<LogRow(Result(NoPerson, NoPerson, 0, "error"))>>
            /\ Raise(req, "FaceRecognitionException", 400)
       ELSE /\ written' = <<LogRow(result)>>
            /\ Answer(req, result)
    /\ UNCHANGED <<index, directory, face_service, deleted>>

IdentifyWaitStart ==
    \E image \in Images, t \in Thresholds : identify_wait_start(image, t)

ExtractorAnswers == extractor_answers

IdentifyWaitExtracted == identify_wait_extracted

IndexAnswers ==
    /\ req.op = "identify_wait" /\ req.pc = "searching" /\ ~req.answered
    /\ \E a \in StoreAnswers(index, req.processed.query, TopKIdentify) : index_answers(a)

IdentifyWaitSearched == identify_wait_searched

NextWait ==
    \/ IdentifyWaitStart \/ ExtractorAnswers \/ IdentifyWaitExtracted
    \/ IndexAnswers \/ IdentifyWaitSearched \/ Finish

\* the event loop runs every coroutine that can resume; nothing obliges the
\* extractor or the index to answer
SpecWait ==
    /\ InitIdentify /\ [][NextWait]_vars
    /\ WF_vars(IdentifyWaitExtracted)
    /\ WF_vars(IdentifyWaitSearched)
    /\ WF_vars(Finish)

(***************************************************************************)
(* Enrolment of further photos (api/persons.py add_person_photos)          *)
(*                                                                         *)
(* The handler extracts one embedding per usable photo, upserts the list   *)
(* under the person's id and adds its length to the person's photo_count.  *)
(* req keeps the successful upserts made so far (person, number of         *)
(* embeddings, their values), written the photo_count updates.             *)
(***************************************************************************)
MaxEnrolments == 2

\* len(embeddings) of an upsert argument
UpsertSize(embeddings) ==
    SumOver([r \in Ranges |-> IF r \in DOMAIN embeddings THEN RangeSize(r) ELSE 0],
            Ranges)

PhotoCountRow(person_id, photo_count) ==
    [person_id |-> person_id, photo_count |-> photo_count]

\* person.get("photo_count", 0): the count last stored for the person
RECURSIVE PhotoCount(_, _)
PhotoCount(rows, person_id) ==
    IF rows = <<>> THEN 0
    ELSE IF rows[Len(rows)].person_id = person_id THEN rows[Len(rows)].photo_count
    ELSE PhotoCount(SubSeq(rows, 1, Len(rows) - 1), person_id)

NoEnrolments == [op |-> "add_person_photos", pc |-> "idle", upserts |-> <<>>]

EnrolResp(person_id, exc, code, total_photos) ==
    [op |-> "add_person_photos", person |-> person_id, exc |-> exc,
     code |-> code, total_photos |-> total_photos]

\* embeddings: what the photos gave (empty when no photo showed a usable
\* face); store_ok: the upsert succeeds; db_ok: the UPDATE of photo_count
\* succeeds
add_person_photos(person_id, embeddings, store_ok, db_ok) ==
    LET new_count == PhotoCount(written, person_id) + UpsertSize(embeddings) IN
    /\ resp.op = "none"
    /\ IF person_id \notin directory
       THEN /\ resp' = EnrolResp(person_id, "PersonNotFoundException", 404, 0)
            /\ UNCHANGED <<index, deleted, req, written>>
       ELSE IF embeddings = <<>>
       THEN /\ resp' = EnrolResp(person_id, "InvalidImageException", 400, 0)
            /\ UNCHANGED <<index, deleted, req, written>>
       ELSE IF ~store_ok
       THEN /\ resp' = EnrolResp(person_id, "HTTPException", 500, 0)
            /\ UNCHANGED <<index, deleted, req, written>>
       ELSE /\ index' = UpsertedIndex(index, person_id, embeddings)
            /\ deleted' = deleted \ {person_id}
            /\ req' = [req EXCEPT !.upserts = Append(@,
                          [person_id |-> person_id, n |-> UpsertSize(embeddings),
                           values |-> {embeddings[i] : i \in DOMAIN embeddings}])]
            /\ IF db_ok
               THEN /\ written' = Append(written, PhotoCountRow(person_id, new_count))
                    /\ resp' = EnrolResp(person_id, "", 200, new_count)
               ELSE /\ resp' = EnrolResp(person_id, "HTTPException", 500, 0)
                    /\ UNCHANGED written
    /\ UNCHANGED <<directory, face_service>>

AddPersonPhotos ==
    /\ Len(req.upserts) < MaxEnrolments
    /\ \E p \in Persons, e \in UpsertArgs \cup {<<>>},
          store_ok \in BOOLEAN, db_ok \in BOOLEAN :
        add_person_photos(p, e, store_ok, db_ok)

InitEnrol ==
    /\ index = EmptyIndex
    /\ directory \in {Persons, {"A"}}
    /\ face_service = ReadyService
    /\ req = NoEnrolments
    /\ written = <<>>
    /\ deleted = {}
    /\ resp = NoResp

NextEnrol == AddPersonPhotos \/ Return

SpecEnrol == InitEnrol /\ [][NextEnrol]_vars

(***************************************************************************)
(* Concurrent add-photos requests (api/persons.py add_person_photos)       *)
(*                                                                         *)
(* The handler is a coroutine: it reads the person row, then awaits the    *)
(* upload of every photo (await photo.read()), where other requests run,   *)
(* and then upserts the embeddings and writes photo_count without a        *)
(* further suspension.  req holds the requests in progress, how many have  *)
(* started, and per person the embeddings that requests answered with 200  *)
(* have added; written holds the photo_count updates.                      *)
(***************************************************************************)
NoPhotoCall == [pc |-> "idle", person_id |-> NoPerson, embeddings |-> <<>>,
                current_count |-> 0, code |-> 0]

NoPhotoRequests ==
    [op |-> "add_photos", started |-> 0, added |-> [p \in Persons |-> 0],
     calls |-> [c \in Calls |-> NoPhotoCall]]

\* the request reads the person row and suspends at the first photo.read()
add_photos_select(c, person_id, embeddings, db_ok) ==
    /\ req.calls[c].pc = "idle"
    /\ req' = [req EXCEPT
                 !.started = @ + 1,
                 !.calls[c] =
                    IF ~db_ok
                    THEN [NoPhotoCall EXCEPT !.pc = "done", !.person_id = person_id,
                                             !.code = 500]
                    ELSE IF person_id \notin directory
                    THEN [NoPhotoCall EXCEPT !.pc = "done", !.person_id = person_id,
                                             !.code = 404]
                    ELSE [pc |-> "photos", person_id |-> person_id,
                          embeddings |-> embeddings,
                          current_count |-> PhotoCount(written, person_id),
                          code |-> 0]]
    /\ UNCHANGED <<index, directory, face_service, deleted, written, resp>>

\* current_count = person.get("photo_count", 0): the count of the row that
\* the request read when it started
CurrentCount(call) == call.current_count

\* the request resumes after its last photo: the upsert, the update of
\* photo_count and the response
add_photos_store(c, store_ok, db_ok) ==
    LET call == req.calls[c]
        n == UpsertSize(call.embeddings)
        new_count == CurrentCount(call) + n
    IN
    /\ call.pc = "photos"
    /\ IF call.embeddings = <<>>
       THEN /\ req' = [req EXCEPT !.calls[c].pc = "done", !.calls[c].code = 400]
            /\ UNCHANGED <<index, deleted, written>>
       ELSE IF ~store_ok
       THEN /\ req' = [req EXCEPT !.calls[c].pc = "done", !.calls[c].code = 500]
            /\ UNCHANGED <<index, deleted, written>>
       ELSE /\ index' = UpsertedIndex(index, call.person_id, call.embeddings)
            /\ deleted' = deleted \ {call.person_id}
            /\ IF db_ok
               THEN /\ written' = Append(written, PhotoCountRow(call.person_id, new_count))
                    /\ req' = [req EXCEPT !.calls[c].pc = "done", !.calls[c].code = 200,
                                          !.added[call.person_id] = @ + n]
               ELSE /\ req' = [req EXCEPT !.calls[c].pc = "done", !.calls[c].code = 500]
                    /\ UNCHANGED written
    /\ UNCHANGED <<directory, face_service, resp>>

\* the client takes the response
add_photos_return(c) ==
    /\ req.calls[c].pc = "done"
    /\ req' = [req EXCEPT !.calls[c] = NoPhotoCall]
    /\ UNCHANGED <<index, directory, face_service, deleted, written, resp>>

AddPhotosSelect ==
    /\ req.started < MaxEnrolments
    /\ \E c \in Calls, p \in Persons, e \in Enrolments, db_ok \in BOOLEAN :
        add_photos_select(c, p, e, db_ok)

AddPhotosStore ==
    \E c \in Calls, store_ok \in BOOLEAN, db_ok \in BOOLEAN :
        add_photos_store(c, store_ok, db_ok)

AddPhotosReturn == \E c \in Calls : add_photos_return(c)

InitPhotos ==
    /\ index = EmptyIndex
    /\ directory \in {Persons, {"A"}}
    /\ face_service = ReadyService
    /\ req = NoPhotoRequests
    /\ written = <<>>
    /\ deleted = {}
    /\ resp = NoResp

NextPhotos == AddPhotosSelect \/ AddPhotosStore \/ AddPhotosReturn

SpecPhotos == InitPhotos /\ [][NextPhotos]_vars

(***************************************************************************)
(* process_image_for_recognition with the quality of the whole image       *)
(*                                                                         *)
(* calculate_image_quality_score gives the decoded image a score in 0..1   *)
(* (times ten here); the service compares it with 0.2.                     *)
(***************************************************************************)
\* if quality_score < 0.2
QualityFloor == 2

\* scores of the whole image: the ends of the range, below the floor, at the
\* floor, and the 0.5 that calculate_image_quality_score also returns when its
\* computation fails
ImageQualities == {0, 1, QualityFloor, 5, 10}

\* no score: the image was not decoded
NoQuality == -1

\* one call of process_image_for_recognition on an image of the given quality:
\* decode, score (a score below 0.2 is logged as a warning), then
\* extract_multiple_embeddings, which runs the detector and the extractor
process_image_quality(image, quality_score) ==
    LET out == process_image_for_recognition(image) IN
    /\ req.pc = "idle" /\ resp.op = "none"
    /\ req' = [op |-> "process_image", pc |-> "done",
               quality_score |-> IF image.decodes THEN quality_score ELSE NoQuality,
               warned |-> image.decodes /\ quality_score < QualityFloor,
               detect_calls |-> IF image.decodes THEN 1 ELSE 0,
               extract_calls |-> out.extract_calls,
               exc |-> out.exc,
               embeddings_data |-> out.embeddings_data]
    /\ UNCHANGED <<index, directory, face_service, deleted, written, resp>>

ProcessImageQuality ==
    \E image \in Images, q \in ImageQualities : process_image_quality(image, q)

NextQuality == ProcessImageQuality \/ Finish

SpecQuality == Init /\ [][NextQuality]_vars

(***************************************************************************)
(* The embedding cache (EmbeddingCache, specification section 4.3)         *)
(*                                                                         *)
(* get(contentHash) -> Embedding|None and put(contentHash, Embedding),     *)
(* bounded by maxEntries, eviction of the oldest-inserted entry when at    *)
(* capacity.  The service under src/ only declares a dictionary            *)
(* (self._model_cache = {}) that nothing reads or writes, and its          *)
(* process_image_for_recognition extracts on every call; the cache and the *)
(* lookup in front of the extractor are modelled from their contract.      *)
(* The cache is a sequence of entries in insertion order.                  *)
(***************************************************************************)
MaxEntries == 2

\* content hashes of the raw bytes of the images that are submitted
ContentHashes == 1..(MaxEntries + 2)

\* extraction is a pure function of the image bytes
EmbeddingOf(h) == h % 2

\* get: no entry under the key
CacheMiss == -1

CacheEntry(h, e) == [key |-> h, embedding |-> e]

CacheKeys(cache) == {cache[i].key : i \in 1..Len(cache)}

\* get(contentHash) -> Embedding|None
cache_get(cache, h) ==
    IF h \in CacheKeys(cache)
    THEN cache[CHOOSE i \in 1..Len(cache) : cache[i].key = h].embedding
    ELSE CacheMiss

\* a put that makes room by dropping the entry inserted last
PutEvictsNewest(cache, h, e) ==
    IF h \in CacheKeys(cache)
    THEN [i \in 1..Len(cache) |->
            IF cache[i].key = h THEN CacheEntry(h, e) ELSE cache[i]]
    ELSE IF Len(cache) >= MaxEntries
    THEN Append(SubSeq(cache, 1, Len(cache) - 1), CacheEntry(h, e))
    ELSE Append(cache, CacheEntry(h, e))

\* put(contentHash, Embedding): when at capacity, the oldest-inserted entry
\* is removed before the new one is inserted; a key already present keeps
\* its place
cache_put(cache, h, e) ==
    IF h \in CacheKeys(cache)
    THEN [i \in 1..Len(cache) |->
            IF cache[i].key = h THEN CacheEntry(h, e) ELSE cache[i]]
    ELSE IF Len(cache) >= MaxEntries
    THEN Append(Tail(cache), CacheEntry(h, e))
    ELSE Append(cache, CacheEntry(h, e))

\* the service with its cache; last_hit remembers the key of the most recent
\* cache hit (0: none yet)
CachingService ==
    [is_initialized |-> TRUE, warm_ups |-> 1, init_task |-> "done",
     calls |-> [c \in Calls |-> NoCall],
     embedding_cache |-> <<>>, last_hit |-> 0]

\* (cache lookup): a hit short-circuits the extractor
cached_extract_lookup(h) ==
    LET cache == face_service.embedding_cache
        got == cache_get(cache, h)
    IN
    /\ req.pc = "idle" /\ resp.op = "none"
    /\ IF got # CacheMiss
       THEN /\ req' = [op |-> "cached_extract", pc |-> "done", hash |-> h,
                       cache_hit |-> TRUE, embedding |-> got, before |-> cache]
            /\ face_service' = [face_service EXCEPT !.last_hit = h]
       ELSE /\ req' = [op |-> "cached_extract", pc |-> "extracting", hash |-> h,
                       cache_hit |-> FALSE, embedding |-> CacheMiss,
                       before |-> cache]
            /\ UNCHANGED face_service
    /\ UNCHANGED <<index, directory, deleted, written, resp>>

\* EmbeddingExtractor -> EmbeddingCache (store)
cached_extract_store ==
    /\ req.op = "cached_extract" /\ req.pc = "extracting"
    /\ req' = [req EXCEPT !.pc = "done", !.embedding = EmbeddingOf(req.hash)]
    /\ face_service' =
            [face_service EXCEPT !.embedding_cache =
                cache_put(face_service.embedding_cache, req.hash,
                          EmbeddingOf(req.hash))]
    /\ UNCHANGED <<index, directory, deleted, written, resp>>

CachedExtractLookup == \E h \in ContentHashes : cached_extract_lookup(h)

CachedExtractStore == cached_extract_store

InitCache ==
    /\ index = EmptyIndex
    /\ directory = Persons
    /\ face_service = CachingService
    /\ req = Idle
    /\ written = <<>>
    /\ deleted = {}
    /\ resp = NoResp

NextCache == CachedExtractLookup \/ CachedExtractStore \/ Finish

SpecCache == InitCache /\ [][NextCache]_vars

(***************************************************************************)
(* Where the steps of an identification run                                *)
(*                                                                         *)
(* RecognitionService.identify_person is a coroutine of the event loop,    *)
(* the thread that accepts the client requests.  A step that it calls      *)
(* directly runs on that thread; a step handed to run_in_executor runs on  *)
(* the thread pool of the service while the coroutine is suspended.        *)
(***************************************************************************)
EventLoop == "event_loop"

ThreadPool == "thread_pool"

\* the thread each step of the request runs on
ThreadOf(step) ==
    CASE step = "decode" -> EventLoop         \* base64_to_cv2(base64_image)
      [] step = "quality" -> EventLoop        \* calculate_image_quality_score(cv2_image)
      [] step = "detect" -> ThreadPool        \* run_in_executor(_detect_faces_sync)
      [] step = "extract" -> ThreadPool       \* run_in_executor(_extract_embedding_sync)
      [] step = "search" -> EventLoop         \* self.vector_db.search_similar_faces(...)
      [] step = "lookup" -> EventLoop         \* self.db.table("persons")...execute()
      [] step = "log" -> EventLoop            \* self.db.table("recognition_logs")...execute()

\* the request has run step on its thread and goes on at pc
Ran(step, pc) ==
    [req EXCEPT !.pc = pc, !.step = step, !.thread = ThreadOf(step)]

identify_steps_decode(image, threshold) ==
    /\ req.pc = "idle" /\ resp.op = "none"
    /\ req' = [op |-> "identify_steps", pc |-> IF image.decodes THEN "quality" ELSE "log",
               threshold |-> threshold, image |-> image, face |-> 0,
               embeddings_data |-> <<>>, matches |-> <<>>,
               step |-> "decode", thread |-> ThreadOf("decode")]
    /\ written' = <<>>
    /\ UNCHANGED <<index, directory, face_service, deleted, resp>>

identify_steps_quality ==
    /\ req.op = "identify_steps" /\ req.pc = "quality"
    /\ req' = Ran("quality", "detect")
    /\ UNCHANGED <<index, directory, face_service, deleted, written, resp>>

identify_steps_detect ==
    /\ req.op = "identify_steps" /\ req.pc = "detect"
    /\ req' = Ran("detect", IF detect_faces(req.image).exc = "" THEN "extract" ELSE "log")
    /\ UNCHANGED <<index, directory, face_service, deleted, written, resp>>

\* one turn of the loop over the detected faces
identify_steps_extract ==
    LET faces == req.image.faces
        f == faces[req.face + 1]
        data == IF f.extract = ExtractFails THEN req.embeddings_data
                ELSE Append(req.embeddings_data,
                            [embedding |-> f.extract, quality_score |-> f.quality_score])
        last == req.face + 1 = Len(faces)
    IN
    /\ req.op = "identify_steps" /\ req.pc = "extract"
    /\ req' = [Ran("extract", IF ~last THEN "extract"
                              ELSE IF data = <<>> THEN "log" ELSE "search")
                 EXCEPT !.face = @ + 1, !.embeddings_data = data]
    /\ UNCHANGED <<index, directory, face_service, deleted, written, resp>>

identify_steps_search(answer) ==
    LET out == SearchSimilarFaces(answer, EffectiveThreshold(req.threshold)) IN
    /\ req.op = "identify_steps" /\ req.pc = "search"
    /\ req' = [Ran("search", IF out.matches # <<>> THEN "lookup" ELSE "log")
                 EXCEPT !.matches = out.matches]
    /\ UNCHANGED <<index, directory, face_service, deleted, written, resp>>

identify_steps_lookup ==
    /\ req.op = "identify_steps" /\ req.pc = "lookup"
    /\ req' = Ran("lookup", "log")
    /\ UNCHANGED <<index, directory, face_service, deleted, written, resp>>

identify_steps_log ==
    /\ req.op = "identify_steps" /\ req.pc = "log"
    /\ req' = Ran("log", "done")
    /\ UNCHANGED <<index, directory, face_service, deleted, written, resp>>

IdentifyStepsDecode ==
    \E image \in Images, t \in Thresholds : identify_steps_decode(image, t)

IdentifyStepsQuality == identify_steps_quality

IdentifyStepsDetect == identify_steps_detect

IdentifyStepsExtract == identify_steps_extract

IdentifyStepsSearch ==
    /\ req.op = "identify_steps" /\ req.pc = "search"
    /\ \E a \in StoreAnswers(index, BestEmbedding(req.embeddings_data).embedding,
                             TopKIdentify) :
        identify_steps_search(a)

IdentifyStepsLookup == identify_steps_lookup

IdentifyStepsLog == identify_steps_log

NextSteps ==
    \/ IdentifyStepsDecode \/ IdentifyStepsQuality \/ IdentifyStepsDetect
    \/ IdentifyStepsExtract \/ IdentifyStepsSearch \/ IdentifyStepsLookup
    \/ IdentifyStepsLog \/ Finish

SpecSteps == InitIdentify /\ [][NextSteps]_vars

(***************************************************************************)
(* FaceRecognitionService.calculate_similarity                             *)
(*                                                                         *)
(* Embeddings are vectors of one or two integer components.  The floating  *)
(* point numbers of the computation are fixed-point numbers with the unit  *)
(* 1/Scale, every operation rounded to the nearest unit.                   *)
(***************************************************************************)
\* 1.0 in fixed point: the unit is the 1e-4 of the tolerance
Scale == 10000

Components == -3..3

Vectors == [1..1 -> Components] \cup [1..2 -> Components]

\* a / b rounded to the nearest integer, b > 0
RoundDiv(a, b) == (2 * a + b) \div (2 * b)

RECURSIVE SqrtBetween(_, _, _)
SqrtBetween(n, lo, hi) ==
    IF lo = hi THEN lo
    ELSE LET mid == (lo + hi + 1) \div 2 IN
         IF mid * mid <= n THEN SqrtBetween(n, mid, hi)
         ELSE SqrtBetween(n, lo, mid - 1)

\* the square root of n rounded to the nearest integer
RoundSqrt(n) ==
    LET r == SqrtBetween(n, 0, 46340) IN
    IF n - r * r > r THEN r + 1 ELSE r

DotProduct(a, b) ==
    SumOver([i \in DOMAIN a |-> a[i] * b[i]], DOMAIN a)

\* np.linalg.norm(embedding), in units of 1/Scale
Norm(embedding) == RoundSqrt(Scale * Scale * DotProduct(embedding, embedding))

\* embedding / np.linalg.norm(embedding), components in units of 1/Scale
Normalized(embedding) ==
    [i \in DOMAIN embedding |-> RoundDiv(embedding[i] * Scale * Scale, Norm(embedding))]

\* np.clip(x, 0.0, 1.0)
Clip(x) == IF x < 0 THEN 0 ELSE IF x > Scale THEN Scale ELSE x

\* a similarity that is the cosine itself, clipped only from above
RawCosine(embedding1, embedding2) ==
    IF Norm(embedding1) = 0 \/ Norm(embedding2) = 0 THEN 0
    ELSE IF Len(embedding1) # Len(embedding2) THEN 0
    ELSE LET similarity == RoundDiv(DotProduct(Normalized(embedding1),
                                               Normalized(embedding2)), Scale)
         IN IF similarity > Scale THEN Scale ELSE similarity

\* calculate_similarity: 0.0 when a norm is zero, 0.0 when np.dot raises
\* (the shapes differ), else the cosine mapped to 0..1 and clipped
calculate_similarity(embedding1, embedding2) ==
    IF Norm(embedding1) = 0 \/ Norm(embedding2) = 0 THEN 0
    ELSE IF Len(embedding1) # Len(embedding2) THEN 0
    ELSE LET similarity == RoundDiv(DotProduct(Normalized(embedding1),
                                               Normalized(embedding2)), Scale)
             confidence == RoundDiv(similarity + Scale, 2)
         IN Clip(confidence)

CalculateSimilarity ==
    /\ req.pc = "idle" /\ resp.op = "none"
    /\ \E e1 \in Vectors, e2 \in Vectors :
        req' = [op |-> "calculate_similarity", pc |-> "done",
                embedding1 |-> e1, embedding2 |-> e2,
                result |-> calculate_similarity(e1, e2)]
    /\ UNCHANGED <<index, directory, face_service, deleted, written, resp>>

NextSimilarity == CalculateSimilarity \/ Finish

SpecSimilarity == Init /\ [][NextSimilarity]_vars

(***************************************************************************)
(* RecognitionService.verify_person                                        *)
(***************************************************************************)
\* search_similar_faces(query_embedding, top_k=10, threshold=0.0)
TopKVerify == 10

VerifyResp(exc, code, person_id, confidence, verified, status) ==
    [op |-> "verify_person", exc |-> exc, code |-> code, person_id |-> person_id,
     confidence |-> confidence, verified |-> verified, status |-> status]

VerifyRaise(r, exc) ==
    /\ req' = [r EXCEPT !.pc = "done"]
    /\ resp' = VerifyResp(exc, 400, r.person_id, 0, FALSE, "none")

\* the person's entries among the matches of the search
RECURSIVE PersonMatches(_, _)
PersonMatches(matches, person_id) ==
    IF matches = <<>> THEN <<>>
    ELSE (IF Head(matches).person_id = person_id THEN <<Head(matches)>> ELSE <<>>)
         \o PersonMatches(Tail(matches), person_id)

\* max(person_matches, key=similarity): the first entry of maximal similarity
BestMatch(person_matches) ==
    person_matches[CHOOSE k \in 1..Len(person_matches) :
        /\ \A j \in 1..Len(person_matches) :
                person_matches[j].similarity <= person_matches[k].similarity
        /\ \A j \in 1..(k - 1) :
                person_matches[j].similarity < person_matches[k].similarity]

\* verified = confidence >= threshold
Verified(confidence, threshold) == confidence >= threshold

\* the except Exception clause: the error is logged (a failure of the log
\* insert is swallowed) and FaceRecognitionException is raised
VerifyError(r, log_ok) ==
    /\ written' = IF log_ok THEN <<LogRow(Result(r.person_id, NoPerson, 0, "error"))>>
                  ELSE <<>>
    /\ VerifyRaise(r, "FaceRecognitionException")

\* the method up to its call of the vector store
verify_person_process(person_id, image, threshold, db_ok, log_ok) ==
    LET p == process_image_for_recognition(image)
        r == [op |-> "verify_person", pc |-> "search", person_id |-> person_id,
              threshold |-> threshold, query |-> 0, searched |-> FALSE]
    IN
    /\ req.pc = "idle" /\ resp.op = "none"
    /\ IF ~db_ok THEN VerifyError(r, log_ok)
       ELSE IF person_id \notin directory
       THEN /\ VerifyRaise(r, "FaceRecognitionException") /\ written' = <<>>
       ELSE IF p.exc = "NoFaceDetectedException" \/ (p.exc = "" /\ p.embeddings_data = <<>>)
       THEN /\ VerifyRaise(r, "NoFaceDetectedException") /\ written' = <<>>
       ELSE IF p.exc = "FaceRecognitionException"
       THEN /\ VerifyRaise(r, "FaceRecognitionException") /\ written' = <<>>
       ELSE IF p.exc # "" THEN VerifyError(r, log_ok)
       ELSE /\ req' = [r EXCEPT !.query = BestEmbedding(p.embeddings_data).embedding]
            /\ written' = <<>>
            /\ UNCHANGED resp
    /\ UNCHANGED <<index, directory, face_service, deleted>>

\* the search, the decision, the log record and the answer
verify_person_search(answer, log_ok) ==
    LET out == SearchSimilarFaces(answer, 0)
        r == [req EXCEPT !.searched = TRUE]
        threshold == EffectiveThreshold(req.threshold)
        person_matches == PersonMatches(out.matches, req.person_id)
        confidence == IF person_matches # <<>>
                      THEN BestMatch(person_matches).similarity ELSE 0
        verified == person_matches # <<>> /\ Verified(confidence, threshold)
        status == IF verified THEN "verified" ELSE "not_verified"
    IN
    /\ req.op = "verify_person" /\ req.pc = "search"
    /\ IF out.exc # "" THEN VerifyError(r, log_ok)
       ELSE /\ written' = IF log_ok
                          THEN <<LogRow(Result(req.person_id, NoPerson, confidence, status))>>
                          ELSE <<>>
            /\ req' = [r EXCEPT !.pc = "done"]
            /\ resp' = VerifyResp("", 200, req.person_id, confidence, verified, status)
    /\ UNCHANGED <<index, directory, face_service, deleted>>

VerifyPersonProcess ==
    \E p \in Persons, image \in Images, t \in Thresholds, db_ok \in BOOLEAN,
       log_ok \in BOOLEAN :
        verify_person_process(p, image, t, db_ok, log_ok)

VerifyPersonSearch ==
    /\ req.op = "verify_person" /\ req.pc = "search"
    /\ \E a \in StoreAnswers(index, req.query, TopKVerify), log_ok \in BOOLEAN :
        verify_person_search(a, log_ok)

\* a person enrolled with nothing, one or two photos, or with as many
\* embeddings as one person can own
VerifyEnrolments == Enrolments \cup {[r \in Ranges |-> e] : e \in Embeddings}

VerifyIndexes ==
    LET enrol(idx, p, e) == IF e = <<>> THEN idx ELSE UpsertedIndex(idx, p, e)
    IN {enrol(enrol(EmptyIndex, "A", ea), "B", eb) :
            ea \in VerifyEnrolments, eb \in VerifyEnrolments}

InitVerify ==
    /\ index \in VerifyIndexes
    /\ directory \in {Persons, {"A"}}
    /\ face_service = ReadyService
    /\ req = Idle
    /\ written = <<>>
    /\ deleted = {}
    /\ resp = NoResp

NextVerify == VerifyPersonProcess \/ VerifyPersonSearch \/ Finish

SpecVerify == InitVerify /\ [][NextVerify]_vars

(***************************************************************************)
(* The identification attempts together: identify, batch identify, verify  *)
(* and face login against one index and one directory                      *)
(***************************************************************************)
NextAttempts == NextIdentify \/ NextBatch \/ NextVerify \/ NextLogin

\* A has enrolled two photos, B one; B may be missing from the directory
InitAttempts ==
    /\ index = UpsertedIndex(UpsertedIndex(EmptyIndex, "A", <<0, 1>>), "B", <<1>>)
    /\ directory \in {Persons, {"A"}}
    /\ face_service = ReadyService
    /\ req = Idle
    /\ written = <<>>
    /\ deleted = {}
    /\ resp = NoResp

SpecAttempts == InitAttempts /\ [][NextAttempts]_vars

(***************************************************************************)
(* Deletion of a person: PersonService.delete_person and                   *)
(* DELETE /persons/{person_id} (api/persons.py delete_person)              *)
(*                                                                         *)
(* In this specification deleted is the set of persons whose deletion has  *)
(* reported success.                                                       *)
(***************************************************************************)
DeletePersonResp(op, person_id, exc, code) ==
    [op |-> op, person |-> person_id, exc |-> exc, code |-> code]

\* PersonService.delete_person.  lookup_ok, store_ok, db_ok: the read of the
\* person, the deletion of the embeddings and the deletes of the database
\* succeed; remainder: what the deletion of the embeddings leaves
person_service_delete_person(person_id, lookup_ok, store_ok, remainder, db_ok) ==
    LET op == "PersonService.delete_person"
        \* a failure of delete_person_embeddings is logged as a warning
        after == IF store_ok THEN DeletedIndex(index, person_id, remainder) ELSE index
    IN
    /\ resp.op = "none"
    /\ IF ~lookup_ok \/ person_id \notin directory
       THEN /\ resp' = DeletePersonResp(op, person_id, "PersonNotFoundException", 404)
            /\ UNCHANGED <<index, directory, deleted>>
       ELSE IF ~db_ok
       THEN /\ resp' = DeletePersonResp(op, person_id, "HTTPException", 500)
            /\ index' = after
            /\ UNCHANGED <<directory, deleted>>
       ELSE /\ resp' = DeletePersonResp(op, person_id, "", 200)
            /\ index' = after
            /\ directory' = directory \ {person_id}
            /\ deleted' = deleted \cup {person_id}
    /\ UNCHANGED <<face_service, req, written>>

\* DELETE /persons/{person_id}
delete_person(person_id, lookup_ok, store_ok, remainder, db_ok) ==
    LET op == "delete_person" IN
    /\ resp.op = "none"
    /\ IF ~lookup_ok
       THEN /\ resp' = DeletePersonResp(op, person_id, "HTTPException", 500)
            /\ UNCHANGED <<index, directory, deleted>>
       ELSE IF person_id \notin directory
       THEN /\ resp' = DeletePersonResp(op, person_id, "PersonNotFoundException", 404)
            /\ UNCHANGED <<index, directory, deleted>>
       ELSE IF ~store_ok
       THEN /\ resp' = DeletePersonResp(op, person_id, "HTTPException", 500)
            /\ UNCHANGED <<index, directory, deleted>>
       ELSE IF ~db_ok
       THEN /\ resp' = DeletePersonResp(op, person_id, "HTTPException", 500)
            /\ index' = DeletedIndex(index, person_id, remainder)
            /\ UNCHANGED <<directory, deleted>>
       ELSE /\ resp' = DeletePersonResp(op, person_id, "", 200)
            /\ index' = DeletedIndex(index, person_id, remainder)
            /\ directory' = directory \ {person_id}
            /\ deleted' = deleted \cup {person_id}
    /\ UNCHANGED <<face_service, req, written>>

PersonServiceDeletePerson ==
    /\ resp.op = "none"
    /\ \E p \in Persons, lookup_ok \in BOOLEAN, store_ok \in BOOLEAN, db_ok \in BOOLEAN :
        \E rem \in Remainders(index, p) :
            person_service_delete_person(p, lookup_ok, store_ok, rem, db_ok)

DeletePerson ==
    /\ resp.op = "none"
    /\ \E p \in Persons, lookup_ok \in BOOLEAN, store_ok \in BOOLEAN, db_ok \in BOOLEAN :
        \E rem \in Remainders(index, p) :
            delete_person(p, lookup_ok, store_ok, rem, db_ok)

InitDelete ==
    /\ index \in EnrolledIndexes
    /\ directory = Persons
    /\ face_service = ReadyService
    /\ req = Idle
    /\ written = <<>>
    /\ deleted = {}
    /\ resp = NoResp

\* deletions, and the searches of later identifications
NextDelete == PersonServiceDeletePerson \/ DeletePerson \/ Search \/ Return

SpecDelete == InitDelete /\ [][NextDelete]_vars

(***************************************************************************)
(* Properties of the index service (specification Spec)                    *)
(***************************************************************************)
SearchReturned == resp.op = "search" /\ resp.exc = ""

\* the threshold in effect of the last search: its argument, or the
\* configured confidence threshold when the argument is None
ThresholdInEffect ==
    IF resp.threshold = NoThreshold THEN ConfidenceThreshold ELSE resp.threshold

\* the positions of the store's answer that belong to person p and score at
\* or above the threshold in effect
KeptOf(p) ==
    {i \in 1..Len(resp.answer.matches) :
        /\ resp.answer.matches[i].person_id = p
        /\ resp.answer.matches[i].score >= ThresholdInEffect}

\* C2: search_similar_faces returns at most one match per person_id, and the
\* similarity of that match is the maximum score over the vectors of that
\* person that the store returned at or above the threshold.
C2_AggregateByMax ==
    SearchReturned =>
        /\ \A i, j \in 1..Len(resp.matches) :
                resp.matches[i].person_id = resp.matches[j].person_id => i = j
        /\ \A i \in 1..Len(resp.matches) :
                LET kept == KeptOf(resp.matches[i].person_id) IN
                /\ kept # {}
                /\ \E k \in kept : resp.answer.matches[k].score = resp.matches[i].similarity
                /\ \A k \in kept : resp.answer.matches[k].score <= resp.matches[i].similarity

\* a search whose answer holds two vectors of one person with different
\* scores, both at or above the threshold, next to a match of another person
C2_Witness ==
    /\ SearchReturned
    /\ Len(resp.matches) = 2
    /\ \E p \in Persons : \E i, j \in KeptOf(p) :
            resp.answer.matches[i].score # resp.answer.matches[j].score

\* C3: every match returned by search_similar_faces has a similarity at or
\* above the threshold in effect.
C3_NoMatchBelowThreshold ==
    SearchReturned =>
        \A i \in 1..Len(resp.matches) : resp.matches[i].similarity >= ThresholdInEffect

\* a search with no threshold argument whose answer holds a vector below the
\* configured threshold and one at or above it
C3_Witness ==
    /\ SearchReturned
    /\ resp.threshold = NoThreshold
    /\ resp.matches # <<>>
    /\ \E i \in 1..Len(resp.answer.matches) :
            resp.answer.matches[i].score < ConfidenceThreshold

\* a search with threshold 0.0, which is used as given
C3_WitnessZero ==
    /\ SearchReturned
    /\ resp.threshold = 0
    /\ \E i \in 1..Len(resp.matches) : resp.matches[i].similarity < ConfidenceThreshold

\* C8: after delete_person_embeddings(P) has returned True, no search returns
\* a match with person_id = P (until P is enrolled again).
C8_DeletedNeverMatched ==
    SearchReturned =>
        \A i \in 1..Len(resp.matches) : resp.matches[i].person_id \notin deleted

\* the similarities to q of the vectors that person p has in the index
ScoresOf(p, q) ==
    {Similarity(q, index[s].emb) : s \in {t \in Slots : t[1] = p /\ index[t].count > 0}}

\* x is the best similarity to q of an enrolled embedding of person p
HasBest(p, q, x) == x \in ScoresOf(p, q) /\ \A y \in ScoresOf(p, q) : y <= x

\* C10: when two identities have the same best similarity at or above the
\* threshold, the first match of the search is the same identity for every
\* order in which the store can return its vectors.
C10_TieBreakIndependentOfStoreOrder ==
    (/\ SearchReturned
     /\ \E p1, p2 \in Persons : \E x \in ScoresOf(p1, resp.query) :
            /\ p1 # p2
            /\ HasBest(p1, resp.query, x) /\ HasBest(p2, resp.query, x)
            /\ x >= ThresholdInEffect)
    => \A r \in QueryResponses(index, resp.query, resp.top_k) :
            LET other == SearchSimilarFaces([ok |-> TRUE, matches |-> r], resp.threshold).matches
            IN /\ other # <<>>
               /\ resp.matches # <<>>
               /\ other[1].person_id = resp.matches[1].person_id


(***************************************************************************)
(* Properties of the identification requests (specification SpecIdentify)  *)
(***************************************************************************)
IdentifyOps == {"identify_face", "identify_person"}

IdentifyDone == req.op \in IdentifyOps /\ req.pc = "done"

\* the threshold T of the request: its argument, or the configured
\* confidence threshold when the request gives none
RequestedT == IF req.threshold = NoThreshold THEN ConfidenceThreshold ELSE req.threshold

\* person p has an enrolled embedding within similarity >= T of the query
\* and no other identity scores higher
BestAtOrAboveT(p) ==
    \E x \in ScoresOf(p, req.query) :
        /\ x >= RequestedT
        /\ \A o \in Persons : \A y \in ScoresOf(o, req.query) : y <= x

\* C1: when the store and the database answer every call, an identity P that
\* has an enrolled embedding with similarity >= T to the query, no other
\* identity scoring higher, makes identify end with status 'success' and
\* person_id = P.
C1_ThresholdCorrectness ==
    (IdentifyDone /\ req.searched /\ req.faults = {}) =>
        \A p \in Persons :
            BestAtOrAboveT(p) =>
                /\ resp.exc = ""
                /\ resp.result.status = "success"
                /\ resp.result.person_id = p

\* C4: when extraction succeeds and the search returns no match at or above
\* the threshold, identify returns (and does not raise) a result with status
\* 'no_match', no person and confidence 0.0.
C4_NoMatchIsAResult ==
    (IdentifyDone /\ req.searched /\ req.search_exc = "" /\ req.matches = <<>>) =>
        /\ resp.exc = ""
        /\ resp.result = Result(NoPerson, NoPerson, 0, "no_match")

\* C5: an image in which no face is detected makes identify return (never
\* raise) a result with status 'no_face', no person and confidence 0.0, and
\* no embedding extraction is attempted.
C5_NoFaceIsAResult ==
    (IdentifyDone /\ req.decodes /\ req.detects /\ req.nfaces = 0) =>
        /\ req.extract_calls = 0
        /\ resp.exc = ""
        /\ resp.result = Result(NoPerson, NoPerson, 0, "no_face")

\* C9: when the vector store fails during the search, search_similar_faces
\* raises VectorDatabaseException, and the identification ends by raising:
\* no result is returned and no 'no_match' row is recorded.
C9_StoreFailureIsNotNoMatch ==
    (IdentifyDone /\ "store" \in req.faults) =>
        /\ req.search_exc = "VectorDatabaseException"
        /\ resp.exc # ""
        /\ resp.result = NoResult
        /\ \A i \in 1..Len(written) : written[i].status # "no_match"

\* both identification entry points have ended a request whose search failed,
\* the service one after recording an 'error' row
C9_Witness ==
    /\ IdentifyDone /\ "store" \in req.faults
    /\ req.op = "identify_person"
    /\ written = <<LogRow(Result(NoPerson, NoPerson, 0, "error"))>>

C9_WitnessApi ==
    /\ IdentifyDone /\ "store" \in req.faults
    /\ req.op = "identify_face"
    /\ resp.code = 500

(***************************************************************************)
(* Properties of batch identification (specification SpecBatch)            *)
(***************************************************************************)
BatchDone == req.op = "batch" /\ req.pc = "done"

Classification(e) ==
    [person_id |-> e.person_id, person_name |-> e.person_name,
     confidence |-> e.confidence, status |-> e.status]

RECURSIVE ClassificationsOf(_, _)
ClassificationsOf(results, i) ==
    IF results = <<>> THEN <<>>
    ELSE (IF Head(results).image_index = i
          THEN <<Classification(Head(results))>> ELSE <<>>)
         \o ClassificationsOf(Tail(results), i)

\* what a batch of the one image gives, for every way the store and the
\* database can answer its calls
AloneClassifications(processed) ==
    {ClassificationsOf(
        BatchItem(0, processed, req.threshold, req.save_logs, a, lookup_ok, log_ok).entries, 0) :
        a \in StoreAnswers(index, processed.query, TopKBatch),
        lookup_ok \in BOOLEAN, log_ok \in BOOLEAN}

ItemFailed(j) ==
    \/ req.inputs[j].exc # ""
    \/ ~req.inputs[j].found
    \/ req.store_failed[j]

BatchProcessDone == req.op = "batch_process" /\ req.pc = "done"

\* C6: a failing item never aborts the batch call, and every other item gets
\* the classification it gets when it is processed alone (in
\* batch_identify_faces and in batch_process_images).
C6_BatchIsolation ==
    /\ BatchDone =>
        /\ resp.exc = ""
        /\ \A j \in 1..req.n :
                ClassificationsOf(resp.batch_results, j - 1)
                    \in AloneClassifications(req.inputs[j])
    /\ BatchProcessDone =>
        /\ resp.exc = ""
        /\ Len(resp.results) = req.n
        /\ \A j \in 1..req.n :
                /\ resp.results[j].index = j - 1
                /\ resp.results[j].success = (req.inputs[j].exc = "")
                /\ resp.results[j].embeddings_count = req.inputs[j].found

\* a batch of two whose first item fails, each way an item can fail having
\* its own witness, and whose second item is identified
C6_Witness ==
    /\ BatchDone /\ req.n = 2
    /\ req.inputs[1].exc = "InvalidImageException"
    /\ ClassificationsOf(resp.batch_results, 1)
            = <<Result("A", "A", 10, "success")>>

C6_WitnessSearchError ==
    /\ BatchDone /\ req.n = 2
    /\ req.store_failed[1]
    /\ ~ItemFailed(2)
    /\ resp.batch_results[Len(resp.batch_results)].status = "no_match"

\* batch_process_images on two images, the first failing and the second
\* giving two embeddings
C6_WitnessProcess ==
    /\ BatchProcessDone /\ req.n = 2
    /\ ~resp.results[1].success
    /\ resp.results[2].embeddings_count = 2

LoginRequest == req.op = "face_login"

\* the request matched person p at or above the similarity threshold, and
\* the persons row of p exists, is active and has can_use_face_auth set
LoginPermitted(p) ==
    /\ req.searched /\ req.matches # <<>>
    /\ req.matches[1].person_id = p
    /\ req.matches[1].similarity >= ConfidenceThreshold
    /\ req.matches[1].similarity \in ScoresOf(p, req.query)
    /\ p \in directory
    /\ req.found /\ req.person.active /\ req.person.can_use_face_auth

\* C11: face-login creates and returns an access token only for a person
\* matched at or above the threshold whose persons row exists, is active and
\* has can_use_face_auth set; on every other path no token is created or
\* returned.
C11_TokenOnlyWhenPermitted ==
    LoginRequest =>
        /\ req.tokens > 0 => \E p \in Persons : LoginPermitted(p)
        /\ (req.pc = "done" /\ resp.token) =>
                /\ req.tokens = 1
                /\ LoginPermitted(resp.person_id)

\* a login that returned a token
C11_Witness ==
    /\ LoginRequest /\ req.pc = "done"
    /\ resp.token /\ resp.code = 200

\* logins refused for an inactive person and for a missing row
C11_WitnessRefused ==
    /\ LoginRequest /\ req.pc = "done"
    /\ resp.code \in {403, 404} /\ ~resp.token /\ req.tokens = 0

\* C12: when face-login denies a matched person, the audit record written
\* has status 'denied' and carries the matched person_id and the similarity
\* of the best match.
C12_DeniedRowCarriesMatch ==
    (LoginRequest /\ req.pc = "done" /\ resp.code = 403) =>
        written = <<AuthLogRow(req.matches[1].person_id,
                               req.matches[1].similarity, "denied")>>

\* a person matched with similarity 1.0 and denied because face
\* authentication is not enabled: the row carries the 1.0
C12_Witness ==
    /\ LoginRequest /\ req.pc = "done" /\ resp.code = 403
    /\ req.person.active /\ ~req.person.can_use_face_auth
    /\ written # <<>> /\ written[1].confidence = 10

\* the outcome of a finished identification: the result returned, or
\* 'error' when the request ended by raising
OutcomeOf(response) ==
    IF response.exc = "" THEN response.result
    ELSE Result(NoPerson, NoPerson, 0, "error")

\* C13: every identification attempt produces exactly one audit record,
\* whose status, person id and confidence are those of the outcome (so the
\* records of no-face and no-match outcomes carry confidence 0.0).
C13_OneAuditRecordPerAttempt ==
    (IdentifyDone /\ req.faults = {}) =>
        /\ Len(written) = 1
        /\ written[1] = LogRow(OutcomeOf(resp))

\* the request ended classified 'error': it raised, returned no result, and
\* no row with another status was recorded
EndedInError ==
    /\ resp.exc # ""
    /\ resp.result = NoResult
    /\ \A i \in 1..Len(written) : written[i].status = "error"

C15_NoInferenceBeforeInitialized ==
    \A c \in Calls :
        face_service.calls[c].pc = "inference" => face_service.is_initialized

\* a call that arrived while the start-up warm-up was running, waited for
\* its own initialisation and then ran its inference
C15_Witness ==
    \E c \in Calls :
        /\ face_service.calls[c].pc = "inference"
        /\ face_service.init_task = "warming"
        /\ face_service.warm_ups = 2

\* a call whose initialisation failed
C15_WitnessRaised ==
    \E c \in Calls :
        /\ face_service.calls[c].pc = "raised"
        /\ ~face_service.is_initialized

\* C16: _warm_up_models is executed at most once per instance.
C16_WarmUpAtMostOnce == face_service.warm_ups <= 1

(***************************************************************************)
(* Properties of the waits (specification SpecWait)                        *)
(***************************************************************************)
\* C17: every identify request eventually ends with an outcome, also when
\* the extractor or the index never answers.
C17_EveryRequestTerminates ==
    (req.op = "identify_wait") ~> (req.op = "identify_wait" /\ req.pc = "done")

(***************************************************************************)
(* Properties of the embedding cache (specification SpecCache)             *)
(***************************************************************************)
\* C18: the cache never holds more than maxEntries entries; inserting a
\* distinct image into a full cache evicts exactly the oldest-inserted entry
\* (a hit changes nothing in the cache), a lookup of the evicted image is a
\* miss and every other cached image is still a hit.
C18_CacheCapacityAndEviction ==
    LET cache == face_service.embedding_cache IN
    /\ Len(cache) <= MaxEntries
    /\ (req.op = "cached_extract" /\ req.pc = "done" /\ req.cache_hit) =>
            cache = req.before
    /\ (req.op = "cached_extract" /\ req.pc = "done" /\ ~req.cache_hit) =>
            LET before == req.before
                full == Len(before) = MaxEntries
                kept == IF full THEN CacheKeys(before) \ {before[1].key}
                        ELSE CacheKeys(before)
            IN
            /\ full => cache_get(cache, before[1].key) = CacheMiss
            /\ \A k \in kept \cup {req.hash} : cache_get(cache, k) = EmbeddingOf(k)
            /\ CacheKeys(cache) = kept \cup {req.hash}

\* a full cache whose oldest-inserted entry was the one used most recently
\* took a new image: the oldest entry is gone, the other one still hits
C18_Witness ==
    /\ req.op = "cached_extract" /\ req.pc = "done" /\ ~req.cache_hit
    /\ Len(req.before) = MaxEntries
    /\ face_service.last_hit = req.before[1].key
    /\ cache_get(face_service.embedding_cache, req.before[1].key) = CacheMiss
    /\ cache_get(face_service.embedding_cache, req.before[MaxEntries].key) # CacheMiss

(***************************************************************************)
(* Properties of the quality of the image (specification SpecQuality)      *)
(***************************************************************************)
\* C19: an image whose quality score is below the floor is rejected before
\* any face detection or embedding extraction runs, and never by an
\* exception.
C19_LowQualityRejectedBeforeExtraction ==
    (/\ req.op = "process_image" /\ req.pc = "done"
     /\ req.quality_score # NoQuality /\ req.quality_score < QualityFloor)
        => /\ req.detect_calls = 0
           /\ req.extract_calls = 0
           /\ req.exc = ""
           /\ req.embeddings_data = <<>>

(***************************************************************************)
(* Properties of enrolment (specification SpecEnrol)                       *)
(***************************************************************************)
UpsertsOf(p) ==
    {i \in 1..Len(req.upserts) : req.upserts[i].person_id = p}

\* C20: enrolment accumulates: after successive successful upserts for the
\* same person with n1 and n2 embeddings the index holds n1 + n2 embeddings
\* for that person, and each of them can still be matched by a query.
C20_EnrolmentAccumulates ==
    req.op = "add_person_photos" =>
        \A p \in Persons :
            /\ SumOver(PersonCounts(index, p), Slots)
                    = SumOver([i \in UpsertsOf(p) |-> req.upserts[i].n], UpsertsOf(p))
            /\ \A i \in UpsertsOf(p) : \A e \in req.upserts[i].values :
                    \E s \in Slots : /\ s[1] = p /\ index[s].count > 0
                                     /\ Similarity(e, index[s].emb) = 10

(***************************************************************************)
(* The threshold of a request (specification SpecIdentify)                 *)
(***************************************************************************)
\* C21: for every caller-supplied threshold T, T = 0.0 included, identify
\* filters the matches with exactly T, and with the configured default only
\* when the caller supplies none: a search that the store answered returns
\* matches exactly when some enrolled embedding scores at least T against the
\* query, and every match it returns scores at least T.
C21_FilterWithSuppliedThreshold ==
    (IdentifyDone /\ req.searched /\ req.search_exc = "") =>
        /\ \A i \in 1..Len(req.matches) : req.matches[i].similarity >= RequestedT
        /\ (req.matches # <<>>) <=>
                (\E p \in Persons : \E x \in ScoresOf(p, req.query) : x >= RequestedT)

(***************************************************************************)
(* Properties of the steps of a request (specification SpecSteps)          *)
(***************************************************************************)
\* the steps of the request that block: the analysis of the image quality,
\* face detection, embedding inference, the query of the index, the lookup
\* in the directory
BlockingSteps == {"quality", "detect", "extract", "search", "lookup"}

\* C22: no blocking step of a request runs inline on the thread that
\* accepts client requests: quality analysis, detection, inference, index
\* queries and directory lookups all run on a pool.
C22_NoBlockingStepInline ==
    (req.op = "identify_steps" /\ req.step \in BlockingSteps) =>
        req.thread # EventLoop

(***************************************************************************)
(* Properties of calculate_similarity (specification SpecSimilarity)       *)
(***************************************************************************)
IsZero(embedding) == \A i \in DOMAIN embedding : embedding[i] = 0

\* C23: calculate_similarity returns a value in [0,1] for any two
\* embeddings, 0.0 when either has zero norm, and calculate_similarity(e, e)
\* is 1.0 within the tolerance 1e-4 for every non-zero embedding e.
C23_SimilarityBounded ==
    (req.op = "calculate_similarity" /\ req.pc = "done") =>
        /\ req.result >= 0 /\ req.result <= Scale
        /\ (IsZero(req.embedding1) \/ IsZero(req.embedding2)) => req.result = 0
        /\ (req.embedding1 = req.embedding2 /\ ~IsZero(req.embedding1)) =>
                Abs(req.result - Scale) <= Scale \div 10000

\* two opposite embeddings were compared (cosine -1), and an embedding of
\* two non-zero components was compared with itself
C23_Witness ==
    /\ req.op = "calculate_similarity" /\ req.pc = "done"
    /\ Len(req.embedding1) = 2 /\ Len(req.embedding2) = 2
    /\ req.embedding1[1] # 0 /\ req.embedding1[2] # 0
    /\ req.embedding2 = [i \in 1..2 |-> -req.embedding1[i]]
    /\ req.result = 0

C23_WitnessSelf ==
    /\ req.op = "calculate_similarity" /\ req.pc = "done"
    /\ req.embedding1 = req.embedding2
    /\ req.embedding1 = <<1, 2>>
    /\ req.result = Scale

(***************************************************************************)
(* Properties of the verification (specification SpecVerify)               *)
(***************************************************************************)
VerifyAnswered == req.op = "verify_person" /\ req.pc = "done" /\ resp.exc = ""

\* C27: verify_person(P, image, T) returns verified = true exactly when P
\* has an enrolled embedding whose similarity to the query embedding is >= T,
\* whatever other identities are enrolled; otherwise it returns verified =
\* false with status 'not_verified'.
C27_VerifiedIffEnrolledAtOrAboveT ==
    VerifyAnswered =>
        /\ resp.verified <=> (\E x \in ScoresOf(req.person_id, req.query) : x >= RequestedT)
        /\ ~resp.verified => resp.status = "not_verified"

(***************************************************************************)
(* Properties of all identification attempts (specification SpecAttempts)  *)
(***************************************************************************)
\* C24: an identification attempt (identify, batch identify, verify, face
\* login) leaves the enrolled embeddings of the index and every person record
\* of the directory unchanged; what it writes are audit log records.
C24_AttemptsOnlyWriteAuditRecords ==
    [][/\ index' = index
       /\ directory' = directory
       /\ \A i \in 1..Len(written') :
            DOMAIN written'[i] = {"person_id", "confidence", "status"}]_vars

\* an identification of an enrolled person of the directory ended with
\* status 'success' and its audit record
C24_Witness ==
    /\ req.op \in IdentifyOps /\ req.pc = "done"
    /\ resp.exc = "" /\ resp.result.status = "success"
    /\ resp.result.person_id \in directory
    /\ Len(written) = 1
    /\ ScoresOf(resp.result.person_id, req.query) # {}

(***************************************************************************)
(* Properties of the deletion of a person (specification SpecDelete)       *)
(***************************************************************************)
\* C25: after PersonService.delete_person(P) or DELETE /persons/{P} has
\* reported success, no embedding of P remains in the index, so no later
\* identification returns person_id P.
C25_NoEmbeddingAfterDeletePerson ==
    \A p \in deleted :
        /\ \A s \in Slots : s[1] = p => index[s].count = 0
        /\ SearchReturned =>
                \A i \in 1..Len(resp.matches) : resp.matches[i].person_id # p

C28_MatchesInRankOrder ==
    SearchReturned =>
        /\ \A i \in 1..Len(resp.matches) :
                resp.matches[1].similarity >= resp.matches[i].similarity
        /\ \A i \in 1..Len(resp.matches) : \A j \in i..Len(resp.matches) :
                resp.matches[i].similarity >= resp.matches[j].similarity

\* a search returned two identities whose best similarities differ
C28_Witness ==
    /\ SearchReturned
    /\ Len(resp.matches) = 2
    /\ resp.matches[1].similarity > resp.matches[2].similarity

(***************************************************************************)
(* The embeddings list of a processed image (specification SpecQuality)    *)
(***************************************************************************)
\* C29: extract_multiple_embeddings and process_image_for_recognition never
\* return an empty embeddings list: a call returns at least one embedding or
\* raises NoFaceDetectedException, FaceRecognitionException or
\* InvalidImageException, also when the extraction of every detected face
\* fails.
C29_NeverAnEmptyEmbeddingsList ==
    (req.op = "process_image" /\ req.pc = "done") =>
        IF req.exc = "" THEN Len(req.embeddings_data) >= 1
        ELSE /\ req.embeddings_data = <<>>
             /\ req.exc \in {"NoFaceDetectedException", "FaceRecognitionException",
                             "InvalidImageException"}

\* two faces were detected and the extraction of both failed
C29_Witness ==
    /\ req.op = "process_image" /\ req.pc = "done"
    /\ req.extract_calls = 2
    /\ req.embeddings_data = <<>>
    /\ req.exc = "FaceRecognitionException"

====
